---- MODULE Spec2Model ----
(***************************************************************************)
(* A model of swolly-js: the relational store, the repositories that gate  *)
(* every operation on it, and the entity wrappers that filter what a       *)
(* caller may read.                                                        *)
(*                                                                         *)
(* A repository method is an operator that maps the current store and the  *)
(* method's arguments to an outcome: `result` is "ok" or the name of the   *)
(* error that is thrown, `store` the store afterwards.  The action of the  *)
(* method installs that store and records the call in `last`.              *)
(***************************************************************************)
EXTENDS Integers, Sequences, FiniteSets, TLC

VARIABLES
    store,      \* the tables: User, Session, Project, Task, Application, Category, Image, ProjectImages
    wrapper,    \* the entity wrapper most recently handed out by a repository
    last,       \* the most recent call: its arguments, what it saw and how it ended
    calls       \* the calls in flight that have awaited a read and not yet written

vars == <<store, wrapper, last, calls>>

----------------------------------------------------------------------------
(* Bounds of the model: the sizes of the id pools, and the number of calls  *)
(* that may be in flight at once.                                          *)

MaxUsers == 3
MaxProjects == 1
MaxTasks == 1
MaxApplications == 2
MaxCategories == 1
MaxImages == 2
MaxCalls == 2

UserName == <<"u1", "u2", "u3", "u4", "u5">>
TokenName == <<"t1", "t2", "t3", "t4", "t5">>
ProjectName == <<"p1", "p2", "p3">>
TaskName == <<"k1", "k2", "k3">>
ApplicationName == <<"a1", "a2", "a3">>
CategoryName == <<"c1", "c2", "c3">>
ImageName == <<"i1", "i2", "i3">>

UserIds == {UserName[i] : i \in 1..MaxUsers}
Tokens == {TokenName[i] : i \in 1..MaxUsers}
ProjectIds == {ProjectName[i] : i \in 1..MaxProjects}
TaskIds == {TaskName[i] : i \in 1..MaxTasks}
ApplicationIds == {ApplicationName[i] : i \in 1..MaxApplications}
CategoryIds == {CategoryName[i] : i \in 1..MaxCategories}
ImageIds == {ImageName[i] : i \in 1..MaxImages}

(* null / undefined, a value that is not a string, and an id no table holds *)
Null == "null"
NotAString == "<not a string>"
Unknown == "<unknown id>"

(* the uuid a create assigns: an id of the pool that no row uses *)
FreshId(pool, names, table) == names[CHOOSE i \in 1..Len(names) :
                                   /\ names[i] \in pool \ DOMAIN table
                                   /\ \A j \in 1..(i - 1) : names[j] \notin pool \ DOMAIN table]

Remove(table, ids) == [x \in DOMAIN table \ ids |-> table[x]]

----------------------------------------------------------------------------
(* Enumerations *)

UserRole == {"SUPPORTER", "INITIATOR", "ADMIN"}
ProjectStatus == {"NEEDS_VERIFICATION", "UNLISTED", "PUBLIC"}

(* Values of a payload field: a string is known by its length and a tag    *)
(* that tells two strings of one length apart, a number by its value.      *)
Str(n, tag) == [type |-> "string", length |-> n, tag |-> <<tag>>]
Num(n) == [type |-> "number", value |-> n]
Undefined == [type |-> "undefined"]

(* bcrypt.hash: a 60 character string that is not the password *)
Hash(password) == [type |-> "string", length |-> 60, tag |-> <<"bcrypt", password.tag>>]

----------------------------------------------------------------------------
(* Outcomes of a repository method *)

Throw(error) == [result |-> error, store |-> store]
ThrowCode(error, code) == [result |-> error, code |-> code, store |-> store]
Return(st) == [result |-> "ok", store |-> st]

----------------------------------------------------------------------------
(* Repository: resolving the caller *)

findByPk(table, id) == IF id \in DOMAIN table THEN table[id] ELSE Null
Exists(table, id) == id \in DOMAIN table

(* Repository._userFromToken: the id of the user the token's session       *)
(* belongs to, or null                                                     *)
_userFromToken(token) ==
    IF token = NotAString THEN Null
    ELSE IF /\ Exists(store.Session, token)
            /\ Exists(store.User, store.Session[token].UserId)
         THEN store.Session[token].UserId
         ELSE Null

(* Repository._getAuth throws AuthorizationError for a token that is not a *)
(* string or that names no session                                         *)
_getAuthThrows(token) == token = NotAString \/ _userFromToken(token) = Null

(* the User wrapper _getAuth returns: the caller's id and role as read     *)
_getAuth(token) == [id |-> _userFromToken(token),
                    role |-> store.User[_userFromToken(token)].role]

NoCaller == [id |-> Null, role |-> Null]
CallerOf(token) == IF _getAuthThrows(token) THEN NoCaller ELSE _getAuth(token)

isAdmin(caller) == caller.role = "ADMIN"
isInitiator(caller) == caller.role = "INITIATOR"
isSupporter(caller) == caller.role = "SUPPORTER"

(* a string that names no session *)
BogusToken == "t?"
CallerTokens == Tokens \cup {BogusToken, NotAString}

----------------------------------------------------------------------------
(* The record of a call, kept in `last`: the caller as resolved before the *)
(* call, the target row as it was before the call, and whether the call    *)
(* changed any table.                                                      *)

NoCall == [op |-> "none", token |-> Null, caller |-> NoCaller, id |-> Null,
           arg |-> Undefined, existed |-> FALSE, pre |-> Undefined,
           result |-> "ok", changed |-> FALSE, out |-> Undefined]

Call(op, token, id, arg, table, r) ==
    [op |-> op, token |-> token, caller |-> CallerOf(token), id |-> id,
     arg |-> arg, existed |-> Exists(table, id),
     pre |-> IF Exists(table, id) THEN table[id] ELSE Undefined,
     result |-> r.result, changed |-> r.store # store, out |-> Undefined]

(* The calls in flight: where each stands between its awaits, and what it  *)
(* has read so far.                                                        *)
CallIds == 1..MaxCalls
NotInFlight == [pc |-> "idle", user |-> Null, arg |-> Undefined]
NoCalls == [c \in CallIds |-> NotInFlight]

(* Calls are made one at a time: a call is made only when the outcome of   *)
(* the one before it has been taken (Resolve).                             *)
Idle == last.op = "none"

Do(op, token, id, arg, table, r) ==
    /\ store' = r.store
    /\ last' = Call(op, token, id, arg, table, r)
    /\ UNCHANGED <<wrapper, calls>>

----------------------------------------------------------------------------
(* Cascading deletes of the schema (onDelete: CASCADE / SET NULL) *)

DestroyApplications(st, ids) == [st EXCEPT !.Application = Remove(@, ids)]

DestroyTasks(st, ids) ==
    DestroyApplications([st EXCEPT !.Task = Remove(@, ids)],
                        {a \in DOMAIN st.Application : st.Application[a].TaskId \in ids})

DestroyProjects(st, ids) ==
    DestroyTasks([st EXCEPT !.Project = Remove(@, ids),
                            !.ProjectImages = {r \in @ : r.ProjectId \notin ids}],
                 {t \in DOMAIN st.Task : st.Task[t].ProjectId \in ids})

DestroyUsers(st, ids) ==
    DestroyApplications(
        DestroyProjects([st EXCEPT !.User = Remove(@, ids),
                                   !.Session = Remove(@, {t \in DOMAIN @ : @[t].UserId \in ids})],
                        {p \in DOMAIN st.Project : st.Project[p].CreatorId \in ids}),
        {a \in DOMAIN st.Application : st.Application[a].UserId \in ids})

DestroyCategories(st, ids) ==
    [st EXCEPT !.Category = Remove(@, ids),
               !.Project = [p \in DOMAIN @ |->
                               IF @[p].CategoryId \in ids
                               THEN [@[p] EXCEPT !.CategoryId = Null] ELSE @[p]]]

----------------------------------------------------------------------------
(* Project: validation *)

(* Project.validate: the rules in the order of the code.  The class that   *)
(* a violation is to be thrown as, ValidationError, is not in scope in the *)
(* module, so a violation surfaces as a ReferenceError.                    *)
ProjectRuleViolated(project) ==
    \/ project.title.type # "string"
    \/ project.title.length < 3
    \/ project.description.type # "string"
    \/ project.status \notin ProjectStatus
    \/ project.moneyGoal.type # "number"
    \/ project.moneyGoal.value < 0
    \/ project.lat.type # "number"
    \/ project.lat.value < -90 \/ project.lat.value > 90
    \/ project.lon.type # "number"
    \/ project.lon.value < -180 \/ project.lon.value > 180

ProjectValidate(project) == IF ProjectRuleViolated(project) THEN "ReferenceError" ELSE "ok"

----------------------------------------------------------------------------
(* ProjectRepository *)

(* the two defaults create fills in before validating *)
ProjectDefaults(caller, values) ==
    [values EXCEPT !.status = IF @ = Null THEN "NEEDS_VERIFICATION" ELSE @,
                   !.CreatorId = IF @ = Null THEN caller.id ELSE @]

(* create: the role gate, and the two gates on what a non-admin may set *)
ProjectCreateRoleDenied(caller) == ~isAdmin(caller) /\ ~isInitiator(caller)

(* the status gate with its comparison turned round *)
ProjectCreateStatusDenied_Inverted(caller, values) ==
    ~isAdmin(caller) /\ values.status = "NEEDS_VERIFICATION"

ProjectCreateStatusDenied(caller, values) ==
    ~isAdmin(caller) /\ values.status # "NEEDS_VERIFICATION"

(* the creator gate were it absent *)
ProjectCreateCreatorDenied_Absent(caller, values) == FALSE

ProjectCreateCreatorDenied(caller, values) ==
    ~isAdmin(caller) /\ values.CreatorId # Null /\ values.CreatorId # caller.id

(* the foreign keys of a Project row: CreatorId is required, CategoryId not *)
ProjectForeignKeysHold(st, row) ==
    /\ Exists(st.User, row.CreatorId)
    /\ row.CategoryId = Null \/ Exists(st.Category, row.CategoryId)

ProjectRow(values) ==
    [title |-> values.title, description |-> values.description,
     status |-> values.status, moneyGoal |-> values.moneyGoal,
     moneyPledged |-> Num(0), lat |-> values.lat, lon |-> values.lon,
     CreatorId |-> values.CreatorId, CategoryId |-> values.CategoryId]

(* Project._loadInstance reads every scalar as required: a row without a   *)
(* category cannot be wrapped                                              *)
ProjectLoadInstanceThrows(row) == row.CategoryId = Null

ProjectRepository_create(token, values) ==
    IF _getAuthThrows(token) THEN Throw("AuthorizationError")
    ELSE LET caller == _getAuth(token)
             v == ProjectDefaults(caller, values)
             id == FreshId(ProjectIds, ProjectName, store.Project)
             st == [store EXCEPT !.Project = @ @@ (id :> ProjectRow(v))]
         IN IF ProjectCreateRoleDenied(caller) THEN Throw("AuthorizationError")
            ELSE IF ProjectValidate(v) # "ok" THEN Throw(ProjectValidate(v))
            ELSE IF ProjectCreateStatusDenied(caller, v) THEN Throw("AuthorizationError")
            ELSE IF ProjectCreateCreatorDenied(caller, v) THEN Throw("AuthorizationError")
            ELSE IF ~ProjectForeignKeysHold(store, ProjectRow(v)) THEN Throw("SequelizeError")
            ELSE IF ProjectLoadInstanceThrows(ProjectRow(v))
                 THEN [result |-> "TypeError", store |-> st]
            ELSE Return(st)

(* update were it to have no early return for an empty patch *)
ProjectPatchIsEmpty_NoShortcut(update) == FALSE

(* update: an empty patch returns before the caller is resolved *)
ProjectPatchIsEmpty(update) ==
    /\ update.title = Undefined /\ update.description = Undefined
    /\ update.status = Null /\ update.moneyGoal = Undefined
    /\ update.lat = Undefined /\ update.lon = Undefined
    /\ update.CreatorId = Null /\ update.CategoryId = Null

(* update: the status gate.  Its second operand calls getStatus on         *)
(* `category`, a name the method never binds, so for a non-admin whose     *)
(* patch does not set NEEDS_VERIFICATION the gate ends in a ReferenceError *)
ProjectUpdateStatusGate(caller, update) ==
    IF isAdmin(caller) THEN "pass"
    ELSE IF update.status = "NEEDS_VERIFICATION" THEN "AuthorizationError"
    ELSE "ReferenceError"

ProjectUpdateCreatorDenied(caller, update) ==
    ~isAdmin(caller) /\ update.CreatorId # Null /\ update.CreatorId = caller.id

(* { ...project.dataValues, ...update } and the columns update writes *)
ProjectMerge(row, update) ==
    [row EXCEPT !.title = IF update.title # Undefined THEN update.title ELSE @,
                !.description = IF update.description # Undefined THEN update.description ELSE @,
                !.status = IF update.status # Null THEN update.status ELSE @,
                !.moneyGoal = IF update.moneyGoal # Undefined THEN update.moneyGoal ELSE @,
                !.lat = IF update.lat # Undefined THEN update.lat ELSE @,
                !.lon = IF update.lon # Undefined THEN update.lon ELSE @,
                !.CreatorId = IF update.CreatorId # Null THEN update.CreatorId ELSE @,
                !.CategoryId = IF update.CategoryId # Null THEN update.CategoryId ELSE @]

ProjectRepository_update(token, id, update) ==
    IF ProjectPatchIsEmpty(update) THEN Return(store)
    ELSE IF _getAuthThrows(token) THEN Throw("AuthorizationError")
    ELSE IF ~Exists(store.Project, id) THEN Throw("TypeError")  \* Error.NotFoundError is no constructor
    ELSE LET caller == _getAuth(token)
             project == store.Project[id]
             merged == ProjectMerge(project, update)
         IN IF ProjectUpdateStatusGate(caller, update) # "pass"
            THEN Throw(ProjectUpdateStatusGate(caller, update))
            ELSE IF ProjectUpdateCreatorDenied(caller, update) THEN Throw("AuthorizationError")
            ELSE IF ProjectValidate(merged) # "ok" THEN Throw(ProjectValidate(merged))
            ELSE IF ~ProjectForeignKeysHold(store, merged) THEN Throw("SequelizeError")
            ELSE Return([store EXCEPT !.Project[id] = merged])

(* delete: the gate that throws AuthorizationError *)
ProjectDeleteDenied(caller, project) ==
    ~isAdmin(caller) /\ project.CreatorId = caller.id

ProjectRepository_delete(token, id) ==
    IF _getAuthThrows(token) THEN Throw("AuthorizationError")
    ELSE IF ~Exists(store.Project, id) THEN Throw("TypeError")  \* Error.NotFoundError is no constructor
    ELSE IF ProjectDeleteDenied(_getAuth(token), store.Project[id])
         THEN Throw("AuthorizationError")
    ELSE Return(DestroyProjects(store, {id}))

(* get: any registered caller; the row is wrapped and the wrapper is       *)
(* authenticated with the caller already resolved                          *)
NoWrapper == [class |-> "none"]

ProjectWrapper(id, row, token, caller) ==
    [class |-> "Project", id |-> id, instance |-> row,
     callerToken |-> token, caller |-> caller]

ProjectRepository_get(token, id) ==
    IF _getAuthThrows(token) THEN Throw("AuthorizationError")
    ELSE IF ~Exists(store.Project, id) THEN Return(store)   \* resolves to null
    ELSE IF ProjectLoadInstanceThrows(store.Project[id]) THEN Throw("TypeError")
    ELSE Return(store)

----------------------------------------------------------------------------
(* Project wrapper: the filtered projection *)

isAuthenticated(w) == w.caller.id # Null

(* Project.getData reads this.isPublic, a property no class defines: it is *)
(* undefined, hence falsy, whatever the status                             *)
ProjectIsPublic(w) == FALSE

(* a filter that forgets the status altogether once the caller is known *)
ProjectDataVisible_NoGate(w, filtered) ==
    \/ ~filtered
    \/ ~isAuthenticated(w)
    \/ w.instance.status # "NEEDS_VERIFICATION"
    \/ isAdmin(w.caller)
    \/ w.instance.CreatorId = w.caller.id

ProjectDataVisible(w, filtered) ==
    \/ ~filtered
    \/ ~isAuthenticated(w)
    \/ ProjectIsPublic(w)
    \/ isAdmin(w.caller)
    \/ w.instance.CreatorId = w.caller.id

(* the object getData returns, or undefined *)
Project_getData(w, filtered) ==
    IF ProjectDataVisible(w, filtered) THEN w.instance ELSE Undefined

----------------------------------------------------------------------------
(* The store a deployment starts from: an administrator, an initiator and  *)
(* a supporter (further users are initiators), each with a session, and    *)
(* the categories and images projects refer to.                            *)

SeedRole(i) == IF i = 1 THEN "ADMIN" ELSE IF i = 3 THEN "SUPPORTER" ELSE "INITIATOR"

SeedUser(i) == [fullname |-> Str(3, "a"), mail |-> Str(5, UserName[i]), gender |-> "NONE",
                role |-> SeedRole(i), password |-> Hash(Str(8, "q"))]

SeedStore ==
    [User |-> [u \in UserIds |-> SeedUser(CHOOSE i \in 1..MaxUsers : UserName[i] = u)],
     Session |-> [t \in Tokens |->
                     [UserId |-> UserName[CHOOSE i \in 1..MaxUsers : TokenName[i] = t]]],
     Project |-> [p \in {} |-> Undefined],
     Task |-> [t \in {} |-> Undefined],
     Application |-> [a \in {} |-> Undefined],
     Category |-> [c \in CategoryIds |-> [name |-> Str(3, "a"), ImageId |-> ImageName[1]]],
     Image |-> [i \in {ImageName[1]} |-> [extension |-> "png"]],
     ProjectImages |-> {}]

Init ==
    /\ store = SeedStore
    /\ wrapper = NoWrapper
    /\ calls = NoCalls
    /\ last = NoCall

----------------------------------------------------------------------------
(* Inputs of the Project calls *)

ProjectBase ==
    [title |-> Str(3, "a"), description |-> Str(0, "d"), status |-> Null,
     moneyGoal |-> Num(0), lat |-> Num(0), lon |-> Num(0),
     CreatorId |-> Null, CategoryId |-> CategoryName[1]]

ProjectValues ==
    {[ProjectBase EXCEPT !.status = s, !.CreatorId = c] :
        s \in ProjectStatus \cup {Null}, c \in UserIds \cup {Null}}
    \cup {[ProjectBase EXCEPT !.title = Str(2, "x")],
          [ProjectBase EXCEPT !.CategoryId = Null]}

NoPatch ==
    [title |-> Undefined, description |-> Undefined, status |-> Null,
     moneyGoal |-> Undefined, lat |-> Undefined, lon |-> Undefined,
     CreatorId |-> Null, CategoryId |-> Null]

ProjectPatches ==
    {NoPatch, [NoPatch EXCEPT !.title = Str(4, "b")], [NoPatch EXCEPT !.title = Str(2, "x")]}
    \cup {[NoPatch EXCEPT !.status = s] : s \in ProjectStatus}
    \cup {[NoPatch EXCEPT !.CreatorId = c] : c \in UserIds}

ProjectTargets == ProjectIds \cup {Unknown}

----------------------------------------------------------------------------
(* Actions: the Project calls *)

ProjectCreate ==
    /\ Idle
    /\ ProjectIds \ DOMAIN store.Project # {}
    /\ \E token \in CallerTokens, values \in ProjectValues :
           Do("Project.create", token, FreshId(ProjectIds, ProjectName, store.Project),
              values, store.Project, ProjectRepository_create(token, values))

ProjectUpdate ==
    /\ Idle
    /\ \E token \in CallerTokens, id \in ProjectTargets, update \in ProjectPatches :
        Do("Project.update", token, id, update, store.Project,
           ProjectRepository_update(token, id, update))

ProjectDelete ==
    /\ Idle
    /\ \E token \in CallerTokens, id \in ProjectTargets :
        Do("Project.delete", token, id, Undefined, store.Project,
           ProjectRepository_delete(token, id))

ProjectGet ==
    /\ Idle
    /\ \E token \in CallerTokens, id \in ProjectTargets :
        LET r == ProjectRepository_get(token, id)
        IN /\ store' = r.store
           /\ last' = Call("Project.get", token, id, Undefined, store.Project, r)
           /\ wrapper' = IF r.result = "ok" /\ Exists(store.Project, id)
                         THEN ProjectWrapper(id, store.Project[id], token, _getAuth(token))
                         ELSE wrapper
           /\ UNCHANGED calls

ProjectGetData ==
    /\ Idle
    /\ wrapper.class = "Project"
    /\ \E filtered \in BOOLEAN :
        /\ last' = [op |-> "Project.getData", token |-> wrapper.callerToken,
                    caller |-> wrapper.caller, id |-> wrapper.id,
                    arg |-> [filtered |-> filtered], existed |-> TRUE,
                    pre |-> wrapper.instance, result |-> "ok", changed |-> FALSE,
                    out |-> Project_getData(wrapper, filtered)]
        /\ UNCHANGED <<store, wrapper, calls>>

(* the promise of the call settles and its caller takes the outcome *)
Resolve ==
    /\ ~Idle
    /\ last' = NoCall
    /\ UNCHANGED <<store, wrapper, calls>>

Next == ProjectCreate \/ ProjectUpdate \/ ProjectDelete \/ Resolve

Spec == Init /\ [][Next]_vars

----------------------------------------------------------------------------
(* Facts about the call recorded in `last` *)

Authenticated == last.caller.id # Null

CallerIsProjectCreator == last.existed /\ last.pre.CreatorId = last.caller.id

Denied == last.result = "AuthorizationError"

ProjectStored == Exists(store.Project, last.id)

ProjectUntouched == ProjectStored /\ store.Project[last.id] = last.pre

----------------------------------------------------------------------------
(* C1: ProjectRepository.delete on an existing project succeeds and        *)
(* removes the project when the caller is an admin or the project's        *)
(* creator; for every other authenticated caller it fails with             *)
(* AuthorizationError and the project remains stored.                      *)
C1_DeleteAdminOrCreator ==
    (last.op = "Project.delete" /\ last.existed /\ Authenticated) =>
        IF isAdmin(last.caller) \/ CallerIsProjectCreator
        THEN last.result = "ok" /\ ~ProjectStored
        ELSE Denied /\ ProjectUntouched

(* C2: ProjectRepository.update with a non-empty patch on an existing      *)
(* project is permitted for an admin, and for the non-admin creator when   *)
(* the patch does not move status into or away from NEEDS_VERIFICATION;    *)
(* every other authenticated caller fails with AuthorizationError and the  *)
(* stored project is unchanged.                                            *)
PatchMovesVerification(pre, update) ==
    /\ update.status # Null
    /\ update.status # pre.status
    /\ update.status = "NEEDS_VERIFICATION" \/ pre.status = "NEEDS_VERIFICATION"

C2_UpdateAdminOrCreator ==
    (/\ last.op = "Project.update" /\ last.existed /\ Authenticated
     /\ ~ProjectPatchIsEmpty(last.arg)) =>
        IF \/ isAdmin(last.caller)
           \/ CallerIsProjectCreator /\ ~PatchMovesVerification(last.pre, last.arg)
        THEN ~Denied
        ELSE Denied /\ ProjectUntouched

(* C8: ProjectRepository.create by a non-admin initiator whose payload     *)
(* carries status PUBLIC (and possibly another CreatorId) succeeds and     *)
(* stores a project with status NEEDS_VERIFICATION and CreatorId equal to  *)
(* the caller's id.                                                        *)
InitiatorCreates ==
    /\ last.op = "Project.create"
    /\ isInitiator(last.caller)
    /\ ~ProjectRuleViolated(ProjectDefaults(last.caller, last.arg))
    /\ last.arg.CategoryId # Null

C8_PublicIsForced ==
    (InitiatorCreates /\ last.arg.status = "PUBLIC") =>
        /\ last.result = "ok"
        /\ ProjectStored
        /\ store.Project[last.id].status = "NEEDS_VERIFICATION"
        /\ store.Project[last.id].CreatorId = last.caller.id

(* C8, as the code has it: a non-admin initiator's create whose payload    *)
(* carries status PUBLIC, or any status other than NEEDS_VERIFICATION, or  *)
(* a CreatorId other than the caller's, fails with AuthorizationError and  *)
(* stores nothing; with status and CreatorId left out (or set to           *)
(* NEEDS_VERIFICATION and the caller's id) it succeeds and the stored      *)
(* project has status NEEDS_VERIFICATION and the caller as creator.        *)
C8_PublicIsRejected ==
    InitiatorCreates =>
        IF /\ last.arg.status \in {Null, "NEEDS_VERIFICATION"}
           /\ last.arg.CreatorId \in {Null, last.caller.id}
        THEN /\ last.result = "ok"
             /\ ProjectStored
             /\ store.Project[last.id].status = "NEEDS_VERIFICATION"
             /\ store.Project[last.id].CreatorId = last.caller.id
        ELSE Denied /\ ~last.changed

C8_Witness ==
    /\ InitiatorCreates /\ last.arg.status = "PUBLIC"
    /\ last.arg.CreatorId \notin {Null, last.caller.id}
    /\ Denied /\ ~last.changed

----------------------------------------------------------------------------
(* Reading projects through wrappers.  The store holds a project in every  *)
(* slot, of any status and any creator (an administrator can create each   *)
(* of them); callers fetch a project and ask the wrapper for its data.     *)

SeedProject(status, creator) ==
    [ProjectRow(ProjectBase) EXCEPT !.status = status, !.CreatorId = creator]

InitWrapper ==
    /\ \E status \in [ProjectIds -> ProjectStatus], creator \in [ProjectIds -> UserIds] :
          store = [SeedStore EXCEPT
                      !.Project = [p \in ProjectIds |-> SeedProject(status[p], creator[p])]]
    /\ wrapper = NoWrapper
    /\ calls = NoCalls
    /\ last = NoCall

NextWrapper == ProjectGet \/ ProjectGetData \/ Resolve

SpecWrapper == InitWrapper /\ [][NextWrapper]_vars

(* the call in `last` is getData(filtered = true) on an authenticated      *)
(* Project wrapper                                                         *)
FilteredProjectRead ==
    /\ last.op = "Project.getData"
    /\ last.arg.filtered
    /\ Authenticated

CallerIsStranger == ~isAdmin(last.caller) /\ last.pre.CreatorId # last.caller.id

(* C9: for every project whose status is not PUBLIC and every              *)
(* authenticated wrapper whose caller is neither admin nor the project's   *)
(* creator, getData(filtered = true) returns undefined.                    *)
C9_HiddenFromStrangers ==
    (FilteredProjectRead /\ last.pre.status # "PUBLIC" /\ CallerIsStranger) =>
        last.out = Undefined

C9_Witness ==
    /\ FilteredProjectRead /\ last.pre.status = "UNLISTED" /\ CallerIsStranger
    /\ last.out = Undefined

(* C10: for an authenticated Project wrapper, getData(filtered = true)     *)
(* returns the project's fields iff the status is PUBLIC, or the caller is *)
(* admin, or the caller is the creator; a PUBLIC project is visible to a   *)
(* caller who is neither.                                                  *)
C10_VisibleIffPublicAdminOrCreator ==
    FilteredProjectRead =>
        (last.out = last.pre <=>
            \/ last.pre.status = "PUBLIC"
            \/ isAdmin(last.caller)
            \/ last.pre.CreatorId = last.caller.id)

----------------------------------------------------------------------------
(* User: validation *)

UserGender == {"NONE", "FEMALE", "MALE"}

(* User.validate: the code of the first rule the candidate violates, in    *)
(* the order of the code, or "ok"                                          *)
UserValidate(user) ==
    IF user.password.type # "string" THEN "PASSWORD_NOT_STRING"
    ELSE IF user.password.length < 8 THEN "PASSWORD_TOO_SHORT"
    ELSE IF user.mail.type # "string" THEN "MAIL_NOT_STRING"
    ELSE IF user.mail.length < 3 THEN "MAIL_TOO_SHORT"
    ELSE IF user.fullname.type # "string" THEN "FULLNAME_NOT_STRING"
    ELSE IF user.fullname.length < 3 THEN "FULLNAME_TOO_SHORT"
    ELSE IF user.role \notin UserRole THEN "ROLE_INVALID"
    ELSE IF user.gender \notin UserGender THEN "GENDER_INVALID"
    ELSE "ok"

----------------------------------------------------------------------------
(* UserRepository *)

(* the unique index on mail *)
MailTaken(st, mail, except) ==
    \E u \in DOMAIN st.User \ {except} : st.User[u].mail = mail

(* the gate of create were it to look at registered callers only *)
UserCreateDenied_RegisteredOnly(token, user) ==
    /\ _userFromToken(token) # Null
    /\ ~isAdmin(_getAuth(token))
    /\ user.role = "ADMIN"

(* create: the caller may be anonymous; only an admin may create an admin *)
UserCreateDenied(token, user) ==
    /\ _userFromToken(token) = Null \/ ~isAdmin(_getAuth(token))
    /\ user.role = "ADMIN"

UserRepository_create(token, user) ==
    IF UserCreateDenied(token, user) THEN Throw("AuthorizationError")
    ELSE IF UserValidate(user) # "ok" THEN Throw("ValidationError")
    ELSE IF MailTaken(store, user.mail, Null) THEN Throw("ValidationError")
    ELSE LET id == FreshId(UserIds, UserName, store.User)
             sessionToken == FreshId(Tokens, TokenName, store.Session)
         IN Return([store EXCEPT
                       !.User = @ @@ (id :> [fullname |-> user.fullname, mail |-> user.mail,
                                             gender |-> user.gender, role |-> user.role,
                                             password |-> Hash(user.password)]),
                       !.Session = @ @@ (sessionToken :> [UserId |-> id])])

UserPatchIsEmpty(update) ==
    /\ update.fullname = Undefined /\ update.mail = Undefined
    /\ update.gender = Null /\ update.role = Null /\ update.password = Undefined

(* the gate of update were it to look at the target only *)
UserUpdateDenied_TargetOnly(caller, id, update) ==
    ~isAdmin(caller) /\ id # caller.id

(* update: a non-admin may change only themselves, and not into an admin *)
UserUpdateDenied(caller, id, update) ==
    ~isAdmin(caller) /\ (id # caller.id \/ update.role = "ADMIN")

(* { ...userInstance.dataValues, ...update } *)
UserMerge(row, update) ==
    [row EXCEPT !.fullname = IF update.fullname # Undefined THEN update.fullname ELSE @,
                !.mail = IF update.mail # Undefined THEN update.mail ELSE @,
                !.gender = IF update.gender # Null THEN update.gender ELSE @,
                !.role = IF update.role # Null THEN update.role ELSE @,
                !.password = IF update.password # Undefined THEN update.password ELSE @]

(* update: when the patch carries no password the method reads            *)
(* `userValues`, a name it never binds, and ends in a ReferenceError; when *)
(* it carries one, the merged values are written as they are               *)
UserRepository_update(token, id, update) ==
    IF UserPatchIsEmpty(update) THEN Return(store)
    ELSE IF _getAuthThrows(token) THEN Throw("AuthorizationError")
    ELSE IF UserUpdateDenied(_getAuth(token), id, update) THEN Throw("AuthorizationError")
    ELSE IF ~Exists(store.User, id) THEN Throw("TypeError")  \* Error.NotFoundError is no constructor
    ELSE LET newUserValues == UserMerge(store.User[id], update)
         IN IF UserValidate(newUserValues) # "ok" THEN Throw("ValidationError")
            ELSE IF update.password = Undefined THEN Throw("ReferenceError")
            ELSE IF MailTaken(store, newUserValues.mail, id) THEN Throw("ValidationError")
            ELSE Return([store EXCEPT !.User[id] = newUserValues])

UserDeleteDenied(caller, id) == ~isAdmin(caller) /\ id # caller.id

UserRepository_delete(token, id) ==
    IF _getAuthThrows(token) THEN Throw("AuthorizationError")
    ELSE IF UserDeleteDenied(_getAuth(token), id) THEN Throw("AuthorizationError")
    ELSE IF ~Exists(store.User, id) THEN Throw("TypeError")  \* Error.NotFoundError is no constructor
    ELSE Return(DestroyUsers(store, {id}))

----------------------------------------------------------------------------
(* Inputs of the User calls *)

UserBase(role, mail) ==
    [fullname |-> Str(3, "a"), mail |-> mail, gender |-> "NONE",
     role |-> role, password |-> Str(8, "q")]

(* the mail a new user registers with: one that is theirs alone, or the   *)
(* one the first user of the deployment has                                *)
MailOf(id) == Str(5, id)

UserValues ==
    LET own == MailOf(FreshId(UserIds, UserName, store.User))
    IN {UserBase(role, mail) : role \in UserRole, mail \in {own, MailOf(UserName[1])}}
       \cup {[UserBase("ADMIN", own) EXCEPT !.password = Str(7, "q")]}

NoUserPatch ==
    [fullname |-> Undefined, mail |-> Undefined, gender |-> Null,
     role |-> Null, password |-> Undefined]

UserPatches ==
    {[NoUserPatch EXCEPT !.role = role, !.password = password] :
        role \in {Null, "SUPPORTER", "ADMIN"}, password \in {Undefined, Str(8, "q")}}
    \cup {[NoUserPatch EXCEPT !.fullname = Str(2, "x"), !.role = "ADMIN"]}

UserTargets == UserIds \cup {Unknown}

----------------------------------------------------------------------------
(* Actions: the User calls *)

UserCreate ==
    /\ Idle
    /\ UserIds \ DOMAIN store.User # {}
    /\ \E token \in CallerTokens, user \in UserValues :
           Do("User.create", token, FreshId(UserIds, UserName, store.User),
              user, store.User, UserRepository_create(token, user))

UserUpdate ==
    /\ Idle
    /\ \E token \in CallerTokens, id \in UserTargets, update \in UserPatches :
        Do("User.update", token, id, update, store.User,
           UserRepository_update(token, id, update))

UserDelete ==
    /\ Idle
    /\ \E token \in CallerTokens, id \in UserTargets :
        Do("User.delete", token, id, Undefined, store.User,
           UserRepository_delete(token, id))

NextUser == UserCreate \/ UserUpdate \/ UserDelete \/ Resolve

SpecUser == Init /\ [][NextUser]_vars

----------------------------------------------------------------------------
(* Facts about the User call recorded in `last` *)

CallerIsSelf == last.id = last.caller.id

Admins == {u \in DOMAIN store.User : store.User[u].role = "ADMIN"}

(* the call is a delete, or an update whose patch is not empty *)
UserMutation ==
    \/ last.op = "User.delete"
    \/ last.op = "User.update" /\ ~UserPatchIsEmpty(last.arg)

(* C6: UserRepository.update (with a patch that is not empty) and          *)
(* UserRepository.delete on user id are permitted iff the caller is an     *)
(* admin or the caller's id equals id; for any other authenticated caller  *)
(* they fail with AuthorizationError and the stored user is unchanged.     *)
C6_AdminOrSelf ==
    (UserMutation /\ Authenticated) =>
        IF isAdmin(last.caller) \/ CallerIsSelf
        THEN ~Denied
        ELSE Denied /\ ~last.changed

(* C6, as the code has it: delete is permitted iff the caller is an admin  *)
(* or the user itself; update with a non-empty patch is permitted iff the  *)
(* caller is an admin, or is the user itself and the patch does not set    *)
(* role to ADMIN; every other authenticated caller fails with              *)
(* AuthorizationError and storage is unchanged.                            *)
C6_AdminOrSelfNotPromoting ==
    /\ (last.op = "User.delete" /\ Authenticated) =>
           IF isAdmin(last.caller) \/ CallerIsSelf
           THEN ~Denied
           ELSE Denied /\ ~last.changed
    /\ (last.op = "User.update" /\ Authenticated /\ ~UserPatchIsEmpty(last.arg)) =>
           IF isAdmin(last.caller) \/ (CallerIsSelf /\ last.arg.role # "ADMIN")
           THEN ~Denied
           ELSE Denied /\ ~last.changed

C6_Witness ==
    /\ last.op = "User.update" /\ Authenticated /\ ~isAdmin(last.caller)
    /\ CallerIsSelf /\ last.arg.role = "ADMIN" /\ last.arg.password # Undefined
    /\ Denied /\ ~last.changed

(* C7: no call of UserRepository.create or UserRepository.update made by   *)
(* an anonymous or non-admin caller changes the set of stored users whose  *)
(* role is ADMIN; hence no sequence of such calls does.                    *)
C7_NoEscalation ==
    [][(last'.op \in {"User.create", "User.update"} /\ ~isAdmin(last'.caller))
          => Admins' = Admins]_vars

C7_Witness ==
    /\ last.op = "User.create" /\ last.caller = NoCaller
    /\ last.arg.role = "ADMIN" /\ UserValidate(last.arg) = "ok"
    /\ Denied /\ ~last.changed

----------------------------------------------------------------------------
(* Stores that hold a project in every slot *)

StoreWithProjects(status, creator) ==
    [SeedStore EXCEPT
        !.Project = [p \in ProjectIds |-> SeedProject(status[p], creator[p])]]

(* the k-th name of a pool, counting round the pool *)
Nth(names, size, k) == names[((k - 1) % size) + 1]

IndexOf(names, id) == CHOOSE i \in 1..Len(names) : names[i] = id

----------------------------------------------------------------------------
(* Task: validation *)

(* Task.validate: the code of the first rule the candidate violates, in    *)
(* the order of the code, or "ok"                                          *)
TaskValidate(task) ==
    IF task.title.type # "string" THEN "TITLE_NOT_STRING"
    ELSE IF task.title.length < 3 THEN "TITLE_TOO_SHORT"
    ELSE IF task.description.type # "string" THEN "DESCRIPTION_NOT_STRING"
    ELSE IF task.supporterGoal.type # "number" THEN "SUPPORTER_GOAL_NOT_NUMBER"
    ELSE IF task.supporterGoal.value < 1 \/ task.supporterGoal.value > 1000000000
         THEN "SUPPORTER_GOAL_OUT_OF_RANGE"
    ELSE "ok"

----------------------------------------------------------------------------
(* TaskRepository *)

(* create: an admin, or the creator of the project the task is for *)
TaskCreateDenied(caller, project) ==
    ~isAdmin(caller) /\ project.CreatorId # caller.id

(* create: the payload is validated, and the project looked up, before the *)
(* caller's right to the project is decided                                *)
TaskRepository_create(token, values) ==
    IF _getAuthThrows(token) THEN Throw("AuthorizationError")
    ELSE IF TaskValidate(values) # "ok" THEN Throw("ValidationError")
    ELSE IF ~Exists(store.Project, values.projectId) THEN Throw("NotFoundError")
    ELSE IF TaskCreateDenied(_getAuth(token), store.Project[values.projectId])
         THEN Throw("AuthorizationError")
    ELSE LET id == FreshId(TaskIds, TaskName, store.Task)
         IN Return([store EXCEPT
                       !.Task = @ @@ (id :> [title |-> values.title,
                                             description |-> values.description,
                                             supporterGoal |-> values.supporterGoal,
                                             ProjectId |-> values.projectId])])

TaskPatchIsEmpty(update) ==
    /\ update.title = Undefined /\ update.description = Undefined
    /\ update.supporterGoal = Undefined

TaskUpdateDenied(caller, project) ==
    ~isAdmin(caller) /\ project.CreatorId # caller.id

(* { ...task.dataValues, ...update } *)
TaskMerge(row, update) ==
    [row EXCEPT !.title = IF update.title # Undefined THEN update.title ELSE @,
                !.description = IF update.description # Undefined
                                THEN update.description ELSE @,
                !.supporterGoal = IF update.supporterGoal # Undefined
                                  THEN update.supporterGoal ELSE @]

TaskRepository_update(token, id, update) ==
    IF TaskPatchIsEmpty(update) THEN Return(store)
    ELSE IF _getAuthThrows(token) THEN Throw("AuthorizationError")
    ELSE IF ~Exists(store.Task, id) THEN Throw("TypeError")  \* Error.NotFoundError is no constructor
    ELSE IF TaskUpdateDenied(_getAuth(token), store.Project[store.Task[id].ProjectId])
         THEN Throw("AuthorizationError")
    ELSE IF TaskValidate(TaskMerge(store.Task[id], update)) # "ok"
         THEN Throw("ValidationError")
    ELSE Return([store EXCEPT !.Task[id] = TaskMerge(@, update)])

TaskDeleteDenied(caller, project) ==
    ~isAdmin(caller) /\ project.CreatorId # caller.id

TaskRepository_delete(token, id) ==
    IF _getAuthThrows(token) THEN Throw("AuthorizationError")
    ELSE IF ~Exists(store.Task, id) THEN Throw("TypeError")  \* Error.NotFoundError is no constructor
    ELSE IF TaskDeleteDenied(_getAuth(token), store.Project[store.Task[id].ProjectId])
         THEN Throw("AuthorizationError")
    ELSE Return(DestroyTasks(store, {id}))

----------------------------------------------------------------------------
(* Inputs of the Task calls *)

TaskBase ==
    [title |-> Str(3, "a"), description |-> Str(0, "d"), supporterGoal |-> Num(1),
     projectId |-> ProjectName[1]]

TaskValues ==
    {[TaskBase EXCEPT !.title = title, !.projectId = p] :
        title \in {Str(3, "a"), Str(2, "x")}, p \in ProjectIds \cup {Unknown}}

NoTaskPatch ==
    [title |-> Undefined, description |-> Undefined, supporterGoal |-> Undefined]

TaskPatches ==
    {NoTaskPatch, [NoTaskPatch EXCEPT !.title = Str(4, "b")],
     [NoTaskPatch EXCEPT !.supporterGoal = Num(0)]}

TaskTargets == TaskIds \cup {Unknown}

----------------------------------------------------------------------------
(* Actions: the Task calls, on a store that holds a project in every slot *)

InitTask ==
    /\ \E creator \in [ProjectIds -> UserIds] :
          store = StoreWithProjects([p \in ProjectIds |-> "PUBLIC"], creator)
    /\ wrapper = NoWrapper
    /\ calls = NoCalls
    /\ last = NoCall

TaskCreate ==
    /\ Idle
    /\ TaskIds \ DOMAIN store.Task # {}
    /\ \E token \in CallerTokens, values \in TaskValues :
           Do("Task.create", token, FreshId(TaskIds, TaskName, store.Task),
              values, store.Task, TaskRepository_create(token, values))

TaskUpdate ==
    /\ Idle
    /\ \E token \in CallerTokens, id \in TaskTargets, update \in TaskPatches :
        Do("Task.update", token, id, update, store.Task,
           TaskRepository_update(token, id, update))

TaskDelete ==
    /\ Idle
    /\ \E token \in CallerTokens, id \in TaskTargets :
        Do("Task.delete", token, id, Undefined, store.Task,
           TaskRepository_delete(token, id))

NextTask == TaskCreate \/ TaskUpdate \/ TaskDelete \/ Resolve

SpecTask == InitTask /\ [][NextTask]_vars

----------------------------------------------------------------------------
(* Facts about the Task call recorded in `last` *)

(* the project the call is about: the one the payload names, for create,   *)
(* and the one the task belongs to, for update and delete                  *)
TaskCallProject ==
    IF last.op = "Task.create" THEN last.arg.projectId ELSE last.pre.ProjectId

(* the call has a target: create names a stored project, update and delete *)
(* a stored task (and update carries a patch that is not empty)            *)
TaskCallOnTarget ==
    \/ last.op = "Task.create" /\ Exists(store.Project, last.arg.projectId)
    \/ last.op = "Task.update" /\ last.existed /\ ~TaskPatchIsEmpty(last.arg)
    \/ last.op = "Task.delete" /\ last.existed

CallerOwnsTaskProject == store.Project[TaskCallProject].CreatorId = last.caller.id

(* C4: TaskRepository.create, update and delete are permitted iff the      *)
(* caller is an admin or the creator of the owning project; a call by an   *)
(* authenticated caller who is neither fails with AuthorizationError and   *)
(* persists nothing (create) or leaves the stored task unchanged (update,  *)
(* delete).                                                                *)
C4_TaskAdminOrProjectCreator ==
    (TaskCallOnTarget /\ Authenticated) =>
        IF isAdmin(last.caller) \/ CallerOwnsTaskProject
        THEN ~Denied
        ELSE Denied /\ ~last.changed

----------------------------------------------------------------------------
(* Application: validation *)

(* Application.validate.  The class that a violation is to be thrown as,   *)
(* ValidationError, is not in scope in the module, so a violation surfaces *)
(* as a ReferenceError.                                                    *)
ApplicationValidate(application) ==
    IF application.text.type # "string" THEN "ReferenceError"
    ELSE IF application.accepted \notin {"true", "false"} THEN "ReferenceError"
    ELSE "ok"

(* Application._loadInstance reads the scalar "name", which no row has     *)
ApplicationLoadInstanceThrows(row) == TRUE

----------------------------------------------------------------------------
(* ApplicationRepository *)

(* the duplicate check were it to look at accepted applications only *)
HasApplied_AcceptedOnly(st, user, task) ==
    \E a \in DOMAIN st.Application :
        /\ st.Application[a].TaskId = task /\ st.Application[a].UserId = user
        /\ st.Application[a].accepted = "true"

(* findOne({ where: { TaskId, UserId } }) != null *)
HasApplied(st, user, task) ==
    \E a \in DOMAIN st.Application :
        st.Application[a].TaskId = task /\ st.Application[a].UserId = user

(* create: any registered caller, applying as themselves; the payload's    *)
(* accepted is overwritten with true before anything else                  *)
ApplicationRepository_create(token, values) ==
    IF _getAuthThrows(token) THEN Throw("AuthorizationError")
    ELSE LET caller == _getAuth(token)
             v == [text |-> values.text, taskId |-> values.taskId, accepted |-> "true"]
             id == FreshId(ApplicationIds, ApplicationName, store.Application)
             row == [text |-> v.text, accepted |-> v.accepted,
                     UserId |-> caller.id, TaskId |-> v.taskId]
             st == [store EXCEPT !.Application = @ @@ (id :> row)]
         IN IF ApplicationValidate(v) # "ok" THEN Throw(ApplicationValidate(v))
            ELSE IF HasApplied(store, caller.id, v.taskId)
                 THEN ThrowCode("ValidationError", "ALREADY_APPLIED")
            ELSE IF ~Exists(store.Task, v.taskId) THEN Throw("NotFoundError")
            ELSE IF ApplicationLoadInstanceThrows(row)
                 THEN [result |-> "TypeError", store |-> st]
            ELSE Return(st)

ApplicationPatchIsEmpty(update) == update.accepted = Null

(* the project an application is for, reached through its task *)
ApplicationProject(st, row) == st.Project[st.Task[row.TaskId].ProjectId]

(* update: the gate throws unless the caller is an admin and the creator   *)
ApplicationUpdateDenied(caller, project) ==
    ~isAdmin(caller) \/ project.CreatorId # caller.id

ApplicationMerge(row, update) ==
    [row EXCEPT !.accepted = IF update.accepted # Null THEN update.accepted ELSE @]

ApplicationRepository_update(token, id, update) ==
    IF ApplicationPatchIsEmpty(update) THEN Return(store)
    ELSE IF _getAuthThrows(token) THEN Throw("AuthorizationError")
    ELSE IF ~Exists(store.Application, id) THEN Throw("TypeError")  \* Error.NotFoundError is no constructor
    ELSE IF ApplicationUpdateDenied(_getAuth(token),
                                    ApplicationProject(store, store.Application[id]))
         THEN Throw("AuthorizationError")
    ELSE IF ApplicationValidate(ApplicationMerge(store.Application[id], update)) # "ok"
         THEN Throw(ApplicationValidate(ApplicationMerge(store.Application[id], update)))
    ELSE Return([store EXCEPT !.Application[id] = ApplicationMerge(@, update)])

(* delete: the same gate *)
ApplicationDeleteDenied(caller, project) ==
    ~isAdmin(caller) \/ project.CreatorId # caller.id

ApplicationRepository_delete(token, id) ==
    IF _getAuthThrows(token) THEN Throw("AuthorizationError")
    ELSE IF ~Exists(store.Application, id) THEN Throw("TypeError")  \* Error.NotFoundError is no constructor
    ELSE IF ApplicationDeleteDenied(_getAuth(token),
                                    ApplicationProject(store, store.Application[id]))
         THEN Throw("AuthorizationError")
    ELSE Return(DestroyApplications(store, {id}))

----------------------------------------------------------------------------
(* Inputs of the Application calls *)

ApplicationValues ==
    {[text |-> text, taskId |-> t] :
        text \in {Str(4, "w"), Undefined}, t \in TaskIds \cup {Unknown}}

ApplicationPatches ==
    {[accepted |-> a] : a \in {Null, "true", "false", "yes"}}

ApplicationTargets == ApplicationIds \cup {Unknown}

----------------------------------------------------------------------------
(* Actions: the Application calls, on a store that holds a project, a task *)
(* and an application in every slot: the k-th task belongs to the k-th     *)
(* project and the k-th application, by any user, is for the k-th task     *)
(* (counting round the pools); no user has applied twice to one task.      *)

SeedTask(k) ==
    [title |-> Str(3, "a"), description |-> Str(0, "d"), supporterGoal |-> Num(1),
     ProjectId |-> Nth(ProjectName, MaxProjects, k)]

SeedApplication(k, user) ==
    [text |-> Str(4, "w"), accepted |-> "false", UserId |-> user,
     TaskId |-> Nth(TaskName, MaxTasks, k)]

InitApplication ==
    /\ \E creator \in [ProjectIds -> UserIds], applicant \in [ApplicationIds -> UserIds] :
          /\ \A a, b \in ApplicationIds :
                (/\ a # b
                 /\ SeedApplication(IndexOf(ApplicationName, a), applicant[a]).TaskId
                      = SeedApplication(IndexOf(ApplicationName, b), applicant[b]).TaskId)
                    => applicant[a] # applicant[b]
          /\ store = [StoreWithProjects([p \in ProjectIds |-> "PUBLIC"], creator) EXCEPT
                      !.Task = [t \in TaskIds |-> SeedTask(IndexOf(TaskName, t))],
                      !.Application = [a \in ApplicationIds |->
                          SeedApplication(IndexOf(ApplicationName, a), applicant[a])]]
    /\ wrapper = NoWrapper
    /\ calls = NoCalls
    /\ last = NoCall

ApplicationCreate ==
    /\ Idle
    /\ ApplicationIds \ DOMAIN store.Application # {}
    /\ \E token \in CallerTokens, values \in ApplicationValues :
           Do("Application.create", token,
              FreshId(ApplicationIds, ApplicationName, store.Application),
              values, store.Application, ApplicationRepository_create(token, values))

ApplicationUpdate ==
    /\ Idle
    /\ \E token \in CallerTokens, id \in ApplicationTargets, update \in ApplicationPatches :
        Do("Application.update", token, id, update, store.Application,
           ApplicationRepository_update(token, id, update))

ApplicationDelete ==
    /\ Idle
    /\ \E token \in CallerTokens, id \in ApplicationTargets :
        Do("Application.delete", token, id, Undefined, store.Application,
           ApplicationRepository_delete(token, id))

NextApplication == ApplicationCreate \/ ApplicationUpdate \/ ApplicationDelete \/ Resolve

SpecApplication == InitApplication /\ [][NextApplication]_vars

----------------------------------------------------------------------------
(* Facts about the Application call recorded in `last` *)

ApplicationCallOnTarget ==
    \/ last.op = "Application.update" /\ last.existed /\ ~ApplicationPatchIsEmpty(last.arg)
    \/ last.op = "Application.delete" /\ last.existed

CallerOwnsApplicationProject ==
    ApplicationProject(store, last.pre).CreatorId = last.caller.id

(* C3: ApplicationRepository.update and ApplicationRepository.delete on an *)
(* existing application are permitted iff the caller is an admin or is the *)
(* creator of the project reached via the application's task; for every    *)
(* other authenticated caller they fail with AuthorizationError and the    *)
(* stored application is unchanged.                                        *)
C3_ApplicationAdminOrProjectCreator ==
    (ApplicationCallOnTarget /\ Authenticated) =>
        IF isAdmin(last.caller) \/ CallerOwnsApplicationProject
        THEN ~Denied
        ELSE Denied /\ ~last.changed

----------------------------------------------------------------------------
(* Category: validation *)

(* Category.validate.  The class that a violation is to be thrown as,      *)
(* ValidationError, is not in scope in the module, so a violation surfaces *)
(* as a ReferenceError.                                                    *)
CategoryValidate(category) ==
    IF category.name.type # "string" THEN "ReferenceError"
    ELSE IF category.name.length < 3 THEN "ReferenceError"
    ELSE "ok"

----------------------------------------------------------------------------
(* CategoryRepository.  The module binds neither Errors nor Sequelize nor  *)
(* Enums: the statement that is to throw AuthorizationError, and the catch *)
(* that is to translate a foreign key violation, end in a ReferenceError.  *)

CategoryGate(caller) == IF isAdmin(caller) THEN "pass" ELSE "ReferenceError"

CategoryForeignKeysHold(st, row) == Exists(st.Image, row.ImageId)

CategoryRepository_create(token, values) ==
    IF _getAuthThrows(token) THEN Throw("AuthorizationError")
    ELSE IF CategoryGate(_getAuth(token)) # "pass" THEN Throw(CategoryGate(_getAuth(token)))
    ELSE IF CategoryValidate(values) # "ok" THEN Throw(CategoryValidate(values))
    ELSE IF ~CategoryForeignKeysHold(store, values) THEN Throw("ReferenceError")
    ELSE LET id == FreshId(CategoryIds, CategoryName, store.Category)
         IN Return([store EXCEPT
                       !.Category = @ @@ (id :> [name |-> values.name,
                                                 ImageId |-> values.ImageId])])

CategoryPatchIsEmpty(update) == update.name = Undefined /\ update.ImageId = Null

CategoryMerge(row, update) ==
    [row EXCEPT !.name = IF update.name # Undefined THEN update.name ELSE @,
                !.ImageId = IF update.ImageId # Null THEN update.ImageId ELSE @]

CategoryRepository_update(token, id, update) ==
    IF CategoryPatchIsEmpty(update) THEN Return(store)
    ELSE IF _getAuthThrows(token) THEN Throw("AuthorizationError")
    ELSE IF CategoryGate(_getAuth(token)) # "pass" THEN Throw(CategoryGate(_getAuth(token)))
    ELSE IF ~Exists(store.Category, id) THEN Throw("TypeError")  \* Error.NotFoundError is no constructor
    ELSE LET merged == CategoryMerge(store.Category[id], update)
         IN IF CategoryValidate(merged) # "ok" THEN Throw(CategoryValidate(merged))
            ELSE IF ~CategoryForeignKeysHold(store, merged) THEN Throw("ReferenceError")
            ELSE Return([store EXCEPT !.Category[id] = merged])

CategoryRepository_delete(token, id) ==
    IF _getAuthThrows(token) THEN Throw("AuthorizationError")
    ELSE IF CategoryGate(_getAuth(token)) # "pass" THEN Throw(CategoryGate(_getAuth(token)))
    ELSE IF ~Exists(store.Category, id) THEN Throw("TypeError")  \* Error.NotFoundError is no constructor
    ELSE Return(DestroyCategories(store, {id}))

----------------------------------------------------------------------------
(* ImageRepository.  create, assign and unassign resolve the caller and    *)
(* look at nothing else of it.                                             *)

(* what FileType.stream finds in the stream handed to create *)
ImageStreams == {"image/png", "image/jpeg", "image/gif", "<not a stream>"}

ImageExtension(stream) == IF stream = "image/png" THEN "png" ELSE "jpg"

ImageRepository_create(token, imageStream) ==
    IF _getAuthThrows(token) THEN Throw("AuthorizationError")
    ELSE IF imageStream = "<not a stream>" THEN Throw("UploadError")
    ELSE IF imageStream \notin {"image/png", "image/jpeg"} THEN Throw("UploadError")
    ELSE LET id == FreshId(ImageIds, ImageName, store.Image)
         IN Return([store EXCEPT
                       !.Image = @ @@ (id :> [extension |-> ImageExtension(imageStream)])])

countImages(st, projectId) ==
    Cardinality({r \in st.ProjectImages : r.ProjectId = projectId})

(* the count of images above which assign refuses *)
ImageLimit == 9

ImageRepository_assign(token, id, projectId) ==
    IF _getAuthThrows(token) THEN Throw("AuthorizationError")
    ELSE IF ~Exists(store.Image, id) THEN Throw("NotFoundError")
    ELSE IF ~Exists(store.Project, projectId) THEN Throw("NotFoundError")
    ELSE IF countImages(store, projectId) > ImageLimit
         THEN Throw("TypeError")  \* Error.ValidationError is no constructor
    ELSE Return([store EXCEPT
                    !.ProjectImages = @ \cup {[ProjectId |-> projectId, ImageId |-> id]}])

ImageRepository_unassign(token, id, projectId) ==
    IF _getAuthThrows(token) THEN Throw("AuthorizationError")
    ELSE IF ~Exists(store.Image, id) THEN Throw("NotFoundError")
    ELSE IF ~Exists(store.Project, projectId) THEN Throw("NotFoundError")
    ELSE Return([store EXCEPT
                    !.ProjectImages = @ \ {[ProjectId |-> projectId, ImageId |-> id]}])

----------------------------------------------------------------------------
(* Inputs of the Category and Image calls *)

CategoryValues ==
    {[name |-> name, ImageId |-> i] :
        name \in {Str(3, "a"), Str(2, "x")}, i \in {ImageName[1], Unknown}}

CategoryPatches ==
    {[name |-> Undefined, ImageId |-> Null], [name |-> Str(4, "b"), ImageId |-> Null],
     [name |-> Undefined, ImageId |-> Unknown]}

CategoryTargets == CategoryIds \cup {Unknown}

ImageTargets == ImageIds \cup {Unknown}

----------------------------------------------------------------------------
(* Actions: the Category and Image calls, on a store that holds a project  *)
(* in every slot                                                           *)

CategoryCreate ==
    /\ Idle
    /\ CategoryIds \ DOMAIN store.Category # {}
    /\ \E token \in CallerTokens, values \in CategoryValues :
           Do("Category.create", token,
              FreshId(CategoryIds, CategoryName, store.Category),
              values, store.Category, CategoryRepository_create(token, values))

CategoryUpdate ==
    /\ Idle
    /\ \E token \in CallerTokens, id \in CategoryTargets, update \in CategoryPatches :
        Do("Category.update", token, id, update, store.Category,
           CategoryRepository_update(token, id, update))

CategoryDelete ==
    /\ Idle
    /\ \E token \in CallerTokens, id \in CategoryTargets :
        Do("Category.delete", token, id, Undefined, store.Category,
           CategoryRepository_delete(token, id))

ImageCreate ==
    /\ Idle
    /\ ImageIds \ DOMAIN store.Image # {}
    /\ \E token \in CallerTokens, imageStream \in ImageStreams :
           Do("Image.create", token, FreshId(ImageIds, ImageName, store.Image),
              [stream |-> imageStream], store.Image,
              ImageRepository_create(token, imageStream))

ImageAssign ==
    /\ Idle
    /\ \E token \in CallerTokens, id \in ImageTargets, projectId \in ProjectTargets :
        Do("Image.assign", token, id, [projectId |-> projectId], store.Image,
           ImageRepository_assign(token, id, projectId))

ImageUnassign ==
    /\ Idle
    /\ \E token \in CallerTokens, id \in ImageTargets, projectId \in ProjectTargets :
        Do("Image.unassign", token, id, [projectId |-> projectId], store.Image,
           ImageRepository_unassign(token, id, projectId))

NextCatalog ==
    \/ CategoryCreate \/ CategoryUpdate \/ CategoryDelete
    \/ ImageCreate \/ ImageAssign \/ ImageUnassign
    \/ Resolve

SpecCatalog == InitTask /\ [][NextCatalog]_vars

----------------------------------------------------------------------------
(* Facts about the Category or Image call recorded in `last` *)

CatalogMutation ==
    \/ last.op \in {"Category.create", "Category.delete", "Image.create",
                    "Image.assign", "Image.unassign"}
    \/ last.op = "Category.update" /\ ~CategoryPatchIsEmpty(last.arg)

(* C5: every mutation of a Category (create, update, delete) and of an     *)
(* Image (create, assign to a project, unassign from a project) issued by  *)
(* an authenticated non-admin caller fails with AuthorizationError and     *)
(* leaves storage unchanged.                                               *)
C5_CatalogAdminOnly ==
    (CatalogMutation /\ Authenticated /\ ~isAdmin(last.caller)) =>
        Denied /\ ~last.changed

----------------------------------------------------------------------------
(* Model: the states of a wrapper.  A wrapper built without a token (or    *)
(* with a token that is not a string) belongs to the system; one built     *)
(* with a token has no caller until authenticate attaches one.             *)

isSystem(w) == w.callerToken = Null

(* new User(instance, swolly, token) *)
UserWrapper(id, row, token) ==
    [class |-> "User", id |-> id, instance |-> row,
     callerToken |-> IF token = NotAString THEN Null ELSE token,
     caller |-> NoCaller]

(* the record of a call made on the wrapper *)
WrapperCall(op, arg, result, out) ==
    [op |-> op, token |-> wrapper.callerToken, caller |-> wrapper.caller,
     id |-> wrapper.id, arg |-> arg, existed |-> TRUE, pre |-> wrapper.instance,
     result |-> result, changed |-> FALSE, out |-> out]

(* authenticate were it not to turn system wrappers away *)
Model_authenticate_AnyWrapper(w, user) ==
    IF user # Null
    THEN [result |-> "ok",
          wrapper |-> [w EXCEPT !.caller = [id |-> user, role |-> store.User[user].role]]]
    ELSE IF _getAuthThrows(w.callerToken) THEN [result |-> "AuthorizationError", wrapper |-> w]
    ELSE [result |-> "ok", wrapper |-> [w EXCEPT !.caller = _getAuth(w.callerToken)]]

(* Model.authenticate(user): the wrapper afterwards, and how the call ends *)
Model_authenticate(w, user) ==
    IF isSystem(w) THEN [result |-> "Error", wrapper |-> w]
    ELSE IF user # Null
         THEN [result |-> "ok",
               wrapper |-> [w EXCEPT !.caller = [id |-> user, role |-> store.User[user].role]]]
    ELSE IF _getAuthThrows(w.callerToken) THEN [result |-> "AuthorizationError", wrapper |-> w]
    ELSE [result |-> "ok", wrapper |-> [w EXCEPT !.caller = _getAuth(w.callerToken)]]

(* Model.unauthenticate *)
Model_unauthenticate(w) ==
    IF ~isAuthenticated(w) THEN [result |-> "Error", wrapper |-> w]
    ELSE [result |-> "ok", wrapper |-> [w EXCEPT !.caller = NoCaller]]

(* Model.makeSystem *)
Model_makeSystem(w) ==
    [result |-> "ok", wrapper |-> [w EXCEPT !.caller = NoCaller, !.callerToken = Null]]

(* User.getPassword(filtered): the hash, or undefined *)
User_getPassword(w, filtered) ==
    IF ~filtered \/ ~isAuthenticated(w) THEN w.instance.password ELSE Undefined

----------------------------------------------------------------------------
(* Actions: a User wrapper is built over a stored user, moved between its  *)
(* states and asked for the password.                                      *)

UserWrap ==
    /\ Idle
    /\ \E id \in DOMAIN store.User, token \in CallerTokens :
          /\ wrapper' = UserWrapper(id, store.User[id], token)
          /\ last' = [NoCall EXCEPT !.op = "User.new", !.token = token, !.id = id,
                                     !.existed = TRUE, !.pre = store.User[id]]
    /\ UNCHANGED <<store, calls>>

WrapperAuthenticate ==
    /\ Idle
    /\ wrapper.class # "none"
    /\ \E user \in DOMAIN store.User \cup {Null} :
          LET r == Model_authenticate(wrapper, user)
          IN /\ wrapper' = r.wrapper
             /\ last' = WrapperCall("authenticate", [user |-> user], r.result, Undefined)
    /\ UNCHANGED <<store, calls>>

WrapperUnauthenticate ==
    /\ Idle
    /\ wrapper.class # "none"
    /\ wrapper' = Model_unauthenticate(wrapper).wrapper
    /\ last' = WrapperCall("unauthenticate", Undefined,
                           Model_unauthenticate(wrapper).result, Undefined)
    /\ UNCHANGED <<store, calls>>

WrapperMakeSystem ==
    /\ Idle
    /\ wrapper.class # "none"
    /\ wrapper' = Model_makeSystem(wrapper).wrapper
    /\ last' = WrapperCall("makeSystem", Undefined,
                           Model_makeSystem(wrapper).result, Undefined)
    /\ UNCHANGED <<store, calls>>

UserGetPassword ==
    /\ Idle
    /\ wrapper.class = "User"
    /\ \E filtered \in BOOLEAN :
          last' = WrapperCall("User.getPassword", [filtered |-> filtered], "ok",
                              User_getPassword(wrapper, filtered))
    /\ UNCHANGED <<store, wrapper, calls>>

NextUserWrapper ==
    \/ UserWrap \/ WrapperAuthenticate \/ WrapperUnauthenticate \/ WrapperMakeSystem
    \/ UserGetPassword \/ Resolve

SpecUserWrapper == Init /\ [][NextUserWrapper]_vars

(* C11: for every User wrapper, in every wrapper state (system,            *)
(* unauthenticated, authenticated) and for every caller,                   *)
(* getPassword(filtered = true) returns no non-null value.                 *)
C11_PasswordNeverFiltered ==
    (last.op = "User.getPassword" /\ last.arg.filtered) => last.out = Undefined

----------------------------------------------------------------------------
(* Application wrapper: reading an application *)

(* what a getter hands back: a stored id, or null *)
IdValue(id) == [type |-> "string", id |-> id]
JsNull == [type |-> "null"]

ApplicationWrapper(id, row, token, caller) ==
    [class |-> "Application", id |-> id, instance |-> row,
     callerToken |-> token, caller |-> caller]

(* get: any registered caller; the row is wrapped, and the constructor of  *)
(* the wrapper runs _loadInstance                                          *)
ApplicationRepository_get(token, id) ==
    IF _getAuthThrows(token) THEN Throw("AuthorizationError")
    ELSE IF ~Exists(store.Application, id) THEN Return(store)   \* resolves to null
    ELSE IF ApplicationLoadInstanceThrows(store.Application[id]) THEN Throw("TypeError")
    ELSE Return(store)

(* the test getText and getUserId share: the wrapper has no caller, or the *)
(* caller is the applicant, or the caller is the creator of the project    *)
(* fetched through the task (the role of the caller and `filtered` are not *)
(* looked at)                                                              *)
ApplicationFieldVisible(w, filtered) ==
    \/ ~isAuthenticated(w)
    \/ w.caller.id = w.instance.UserId
    \/ w.caller.id = ApplicationProject(store, w.instance).CreatorId

Application_getText(w, filtered) ==
    IF ApplicationFieldVisible(w, filtered) THEN w.instance.text ELSE JsNull

Application_getUserId(w, filtered) ==
    IF ApplicationFieldVisible(w, filtered) THEN IdValue(w.instance.UserId) ELSE JsNull

(* (await swolly.Application.get(token, id)).getText(filtered), and the    *)
(* same with getUserId: how the expression ends and what it yields         *)
ApplicationRead(token, id, getter, filtered) ==
    LET r == ApplicationRepository_get(token, id)
        w == ApplicationWrapper(id, store.Application[id], token, _getAuth(token))
    IN IF r.result # "ok" THEN [result |-> r.result, out |-> Undefined]
       ELSE IF ~Exists(store.Application, id) THEN [result |-> "TypeError", out |-> Undefined]
       ELSE [result |-> "ok",
             out |-> IF getter = "getText" THEN Application_getText(w, filtered)
                     ELSE Application_getUserId(w, filtered)]

ApplicationGetters == {"getText", "getUserId"}

ApplicationReadField ==
    /\ Idle
    /\ \E token \in CallerTokens, id \in ApplicationTargets,
          getter \in ApplicationGetters, filtered \in BOOLEAN :
          last' = [Call("Application." \o getter, token, id, [filtered |-> filtered],
                        store.Application, Return(store))
                      EXCEPT !.result = ApplicationRead(token, id, getter, filtered).result,
                             !.out = ApplicationRead(token, id, getter, filtered).out]
    /\ UNCHANGED <<store, wrapper, calls>>

NextApplicationRead == ApplicationReadField \/ Resolve

SpecApplicationRead == InitApplication /\ [][NextApplicationRead]_vars

(* the call in `last` reads a stored application, filtered, for a          *)
(* registered caller                                                       *)
FilteredApplicationRead ==
    /\ last.op \in {"Application.getText", "Application.getUserId"}
    /\ last.existed /\ Authenticated /\ last.arg.filtered

ApplicationStoredValue ==
    IF last.op = "Application.getText" THEN last.pre.text ELSE IdValue(last.pre.UserId)

(* C12: for every stored application read through its wrapper,            *)
(* getText(filtered = true) and getUserId(filtered = true) return the      *)
(* stored value iff the caller is the applicant, or the creator of the     *)
(* project reached via Task -> Project, or an admin; for every other       *)
(* caller they return null.                                                *)
C12_ApplicantCreatorOrAdmin ==
    FilteredApplicationRead =>
        IF \/ last.caller.id = last.pre.UserId
           \/ CallerOwnsApplicationProject
           \/ isAdmin(last.caller)
        THEN last.out = ApplicationStoredValue
        ELSE last.out = JsNull

----------------------------------------------------------------------------
(* Project wrapper: the getters of the single fields *)

ProjectFields == {"title", "description", "status", "moneyGoal", "moneyPledged",
                  "lat", "lon", "CreatorId", "CategoryId"}

(* getTitle ... getCategoryId: each returns the field as loaded, whatever  *)
(* `filtered` and whoever the caller                                       *)
Project_getField(w, field, filtered) == w.instance[field]

ProjectGetField ==
    /\ Idle
    /\ wrapper.class = "Project"
    /\ \E field \in ProjectFields, filtered \in BOOLEAN :
          last' = WrapperCall("Project.getField", [field |-> field, filtered |-> filtered],
                              "ok", [value |-> Project_getField(wrapper, field, filtered)])
    /\ UNCHANGED <<store, wrapper, calls>>

NextProjectFields == ProjectGet \/ ProjectGetField \/ Resolve

SpecProjectFields == InitWrapper /\ [][NextProjectFields]_vars

(* C13: every per-field getter of a Project wrapper other than id and      *)
(* timestamps, called with filtered = true on an authenticated wrapper,    *)
(* returns the raw value only when the project is PUBLIC, or the caller is *)
(* an admin, or the caller is the creator.                                 *)
C13_FieldsStatusGated ==
    (/\ last.op = "Project.getField" /\ last.arg.filtered /\ Authenticated
     /\ last.out.value = last.pre[last.arg.field]) =>
        \/ last.pre.status = "PUBLIC"
        \/ isAdmin(last.caller)
        \/ last.pre.CreatorId = last.caller.id
----------------------------------------------------------------------------
(* Calls by a caller the repository cannot identify *)

(* the token of the call is not a string, or is a string no session holds *)
CallerUnidentified == last.op # "none" /\ last.caller.id = Null

(* C14: a repository call whose token is absent, is not a string or names  *)
(* no session ends in an AuthorizationError and changes no table; it       *)
(* neither succeeds nor ends in another error.                             *)
C14_UnidentifiedCallerIsRefused ==
    (CallerUnidentified /\ last.op \in {"User.create", "User.update", "User.delete"})
        => (last.result = "AuthorizationError" /\ ~last.changed)
----------------------------------------------------------------------------
(* The update calls of every repository, with the empty patch or a patch   *)
(* of one field, on a store that holds a row of every kind: the first user *)
(* (an admin) created the projects and the last users applied to the tasks. *)

Gates == {"User", "Project", "Task", "Application", "Category"}

EmptyPatch(gate) ==
    CASE gate = "User" -> NoUserPatch
      [] gate = "Project" -> NoPatch
      [] gate = "Task" -> NoTaskPatch
      [] gate = "Application" -> [accepted |-> Null]
      [] gate = "Category" -> [name |-> Undefined, ImageId |-> Null]

OneFieldPatch(gate) ==
    CASE gate = "User" -> [NoUserPatch EXCEPT !.password = Str(9, "r")]
      [] gate = "Project" -> [NoPatch EXCEPT !.title = Str(4, "b")]
      [] gate = "Task" -> [NoTaskPatch EXCEPT !.title = Str(4, "b")]
      [] gate = "Application" -> [accepted |-> "true"]
      [] gate = "Category" -> [name |-> Str(4, "b"), ImageId |-> Null]

Repository_update(gate, token, id, update) ==
    CASE gate = "User" -> UserRepository_update(token, id, update)
      [] gate = "Project" -> ProjectRepository_update(token, id, update)
      [] gate = "Task" -> TaskRepository_update(token, id, update)
      [] gate = "Application" -> ApplicationRepository_update(token, id, update)
      [] gate = "Category" -> CategoryRepository_update(token, id, update)

InitUpdate ==
    /\ store = [StoreWithProjects([p \in ProjectIds |-> "PUBLIC"],
                                  [p \in ProjectIds |-> UserName[1]]) EXCEPT
                   !.Task = [t \in TaskIds |-> SeedTask(IndexOf(TaskName, t))],
                   !.Application = [a \in ApplicationIds |->
                       SeedApplication(IndexOf(ApplicationName, a),
                                       UserName[MaxUsers + 1 - IndexOf(ApplicationName, a)])]]
    /\ wrapper = NoWrapper
    /\ calls = NoCalls
    /\ last = NoCall

Update ==
    /\ Idle
    /\ \E gate \in Gates, token \in CallerTokens :
       \E id \in DOMAIN store[gate] \cup {Unknown},
          update \in {EmptyPatch(gate), OneFieldPatch(gate)} :
           Do(gate \o ".update", token, id, update, store[gate],
              Repository_update(gate, token, id, update))

NextUpdate == Update \/ Resolve

SpecUpdate == InitUpdate /\ [][NextUpdate]_vars

----------------------------------------------------------------------------
(* Facts about the update recorded in `last` *)

UpdateWithEmptyPatch ==
    \E gate \in Gates : last.op = gate \o ".update" /\ last.arg = EmptyPatch(gate)

(* C15: an update with an empty patch, on any repository, returns without  *)
(* an error and writes nothing: every row of every table stays as it was.  *)
C15_EmptyPatchWritesNothing ==
    [][(\E gate \in Gates : last'.op = gate \o ".update" /\ last'.arg = EmptyPatch(gate))
           => (last'.result = "ok" /\ store' = store)]_vars

(* an empty patch was sent for a stored row by a registered caller, after  *)
(* an earlier patch had changed a row                                      *)
C15_Witness ==
    /\ UpdateWithEmptyPatch
    /\ last.existed /\ last.caller.id # Null
    /\ \E t \in DOMAIN store.Task : store.Task[t] # SeedTask(IndexOf(TaskName, t))
----------------------------------------------------------------------------
(* Round trip: a create, then get with the same token on the id of the row *)
(* the create stored                                                       *)

(* the constructor of the wrapper class reads a scalar the row lacks *)
LoadInstanceThrows(gate, row) ==
    CASE gate = "Project" -> ProjectLoadInstanceThrows(row)
      [] gate = "Application" -> ApplicationLoadInstanceThrows(row)
      [] OTHER -> FALSE

(* get of the User, Project, Task, Application and Category repositories:  *)
(* null for an id the table lacks, else the wrapper of the row             *)
Repository_get(gate, token, id) ==
    IF _getAuthThrows(token) THEN Throw("AuthorizationError")
    ELSE IF ~Exists(store[gate], id) THEN Return(store)
    ELSE IF LoadInstanceThrows(gate, store[gate][id]) THEN Throw("TypeError")
    ELSE Return(store)

(* a store with a free slot in every table: the last user has not yet      *)
(* registered and no category has been created                             *)
InitRoundTrip ==
    /\ store = [SeedStore EXCEPT !.User = Remove(@, {UserName[MaxUsers]}),
                                 !.Session = Remove(@, {TokenName[MaxUsers]}),
                                 !.Category = Remove(@, CategoryIds)]
    /\ wrapper = NoWrapper
    /\ calls = NoCalls
    /\ last = NoCall

(* the caller of a create that stored a row goes on to get that row: the   *)
(* record keeps the values supplied, and takes the outcome of the create   *)
(* and the row the wrapper of get holds                                    *)
GetCreated ==
    \E gate \in Gates :
        /\ last.op = gate \o ".create"
        /\ last.changed
        /\ LET r == Repository_get(gate, last.token, last.id)
           IN last' = [last EXCEPT
                  !.op = gate \o ".get",
                  !.result = r.result,
                  !.out = [created |-> last.result,
                           instance |-> IF r.result = "ok" /\ Exists(store[gate], last.id)
                                        THEN store[gate][last.id] ELSE Undefined]]
        /\ UNCHANGED <<store, wrapper, calls>>

NextRoundTrip ==
    \/ UserCreate \/ CategoryCreate \/ ProjectCreate \/ TaskCreate \/ ApplicationCreate
    \/ GetCreated \/ Resolve

SpecRoundTrip == InitRoundTrip /\ [][NextRoundTrip]_vars

(* the fields of the wrapper equal the values supplied; a field the        *)
(* payload leaves out is not compared, and neither is the password, which  *)
(* is kept as its hash                                                     *)
FieldsAsSupplied(gate, values, row) ==
    CASE gate = "User" ->
            /\ row.fullname = values.fullname /\ row.mail = values.mail
            /\ row.gender = values.gender /\ row.role = values.role
      [] gate = "Category" -> row.name = values.name /\ row.ImageId = values.ImageId
      [] gate = "Project" ->
            /\ row.title = values.title /\ row.description = values.description
            /\ values.status # Null => row.status = values.status
            /\ row.moneyGoal = values.moneyGoal
            /\ row.lat = values.lat /\ row.lon = values.lon
            /\ values.CreatorId # Null => row.CreatorId = values.CreatorId
            /\ values.CategoryId # Null => row.CategoryId = values.CategoryId
      [] gate = "Task" ->
            /\ row.title = values.title /\ row.description = values.description
            /\ row.supporterGoal = values.supporterGoal
            /\ row.ProjectId = values.projectId
      [] gate = "Application" -> row.text = values.text /\ row.TaskId = values.taskId

(* C16: for every kind of record, a create by a registered caller that     *)
(* stores a row returns, and get with the same token on the id of that row *)
(* yields a wrapper whose unfiltered fields equal the values supplied.     *)
C16_RoundTrip ==
    \A gate \in Gates :
        (last.op = gate \o ".get" /\ last.caller.id # Null)
            => /\ last.out.created = "ok"
               /\ last.result = "ok"
               /\ last.out.instance # Undefined
               /\ FieldsAsSupplied(gate, last.arg, last.out.instance)
----------------------------------------------------------------------------
(* Applying twice *)

(* the table holds an application by the user for the task *)
ApplicationStored(table, user, task) ==
    \E a \in DOMAIN table : table[a].UserId = user /\ table[a].TaskId = task

(* C17: when an application by a user for a task is stored, a further      *)
(* create by that user for that task (with a text, as in the scenario)     *)
(* fails with a ValidationError whose code is ALREADY_APPLIED, and the     *)
(* table of applications stays as it was.                                  *)
C17_SecondApplicationIsRefused ==
    [][(/\ last'.op = "Application.create"
        /\ last'.arg.text.type = "string"
        /\ ApplicationStored(store.Application, last'.caller.id, last'.arg.taskId))
           => /\ last'.result = "ValidationError"
              /\ ApplicationRepository_create(last'.token, last'.arg).code = "ALREADY_APPLIED"
              /\ store' = store]_vars

(* a user whose application for the task is stored has applied again *)
C17_Witness ==
    /\ last.op = "Application.create"
    /\ last.arg.text.type = "string"
    /\ last.result = "ValidationError"
    /\ ~last.changed
    /\ ApplicationStored(store.Application, last.caller.id, last.arg.taskId)
----------------------------------------------------------------------------
(* ApplicationRepository.create, await by await: calls of several callers  *)
(* run interleaved, and each sees the table as it is when its own read or  *)
(* write reaches the store.                                                *)

(* the key the schema puts on the Application table: the two many-to-many  *)
(* associations through Application make (TaskId, UserId) unique           *)
ApplicationKeyTaken_NotUnique(st, user, task) == FALSE

ApplicationKeyTaken(st, user, task) ==
    \E a \in DOMAIN st.Application :
        st.Application[a].TaskId = task /\ st.Application[a].UserId = user

InFlight == {c \in CallIds : calls[c].pc # "idle"}

(* the outcome of a call in flight, as its caller gets it *)
Settled(op, c, user, arg, result, st) ==
    /\ calls' = [calls EXCEPT ![c] = NotInFlight]
    /\ store' = st
    /\ last' = [NoCall EXCEPT !.op = op, !.caller = [id |-> user, role |-> store.User[user].role],
                              !.arg = arg, !.result = result, !.changed = (st # store)]
    /\ UNCHANGED wrapper

(* the callers that apply: the first two users, and a caller without a     *)
(* session                                                                 *)
ApplyTokens == {TokenName[1], TokenName[2], BogusToken}

(* create up to its first read of the table: the caller is resolved, the   *)
(* payload validated and the duplicate looked for                          *)
ApplyCheck(c) ==
    /\ calls[c].pc = "idle"
    /\ Cardinality(ApplicationIds \ DOMAIN store.Application) > Cardinality(InFlight)
    /\ \E token \in ApplyTokens, values \in ApplicationValues :
        LET r == IF _getAuthThrows(token) THEN "AuthorizationError"
                 ELSE IF ApplicationValidate([text |-> values.text, accepted |-> "true"]) # "ok"
                      THEN ApplicationValidate([text |-> values.text, accepted |-> "true"])
                 ELSE IF HasApplied(store, _getAuth(token).id, values.taskId)
                      THEN "ValidationError"
                 ELSE "pass"
        IN /\ calls' = [calls EXCEPT ![c] =
                           IF r = "pass"
                           THEN [pc |-> "task", user |-> _getAuth(token).id, arg |-> values]
                           ELSE NotInFlight]
           /\ last' = IF r = "pass" THEN last
                      ELSE [NoCall EXCEPT !.op = "Application.create", !.token = token,
                                          !.caller = CallerOf(token), !.arg = values,
                                          !.result = r]
           /\ UNCHANGED <<store, wrapper>>

(* Task.findByPk *)
ApplyLookup(c) ==
    /\ calls[c].pc = "task"
    /\ IF Exists(store.Task, calls[c].arg.taskId)
       THEN /\ calls' = [calls EXCEPT ![c].pc = "insert"]
            /\ UNCHANGED <<store, wrapper, last>>
       ELSE Settled("Application.create", c, calls[c].user, calls[c].arg,
                    "NotFoundError", store)

(* task.createApplication: the insert, which the key on the table may      *)
(* refuse, and then the wrapper that cannot be built                       *)
ApplyInsert(c) ==
    /\ calls[c].pc = "insert"
    /\ LET user == calls[c].user
           values == calls[c].arg
           id == FreshId(ApplicationIds, ApplicationName, store.Application)
           row == [text |-> values.text, accepted |-> "true",
                   UserId |-> user, TaskId |-> values.taskId]
       IN IF ApplicationKeyTaken(store, user, values.taskId)
          THEN Settled("Application.create", c, user, values, "SequelizeError", store)
          ELSE Settled("Application.create", c, user, values,
                       IF ApplicationLoadInstanceThrows(row) THEN "TypeError" ELSE "ok",
                       [store EXCEPT !.Application = @ @@ (id :> row)])

(* projects and tasks are stored, and nobody has applied yet *)
InitApply ==
    /\ store = [StoreWithProjects([p \in ProjectIds |-> "PUBLIC"],
                                  [p \in ProjectIds |-> UserName[1]]) EXCEPT
                   !.Task = [t \in TaskIds |-> SeedTask(IndexOf(TaskName, t))]]
    /\ wrapper = NoWrapper
    /\ last = NoCall
    /\ calls = NoCalls

NextApply == \E c \in CallIds : ApplyCheck(c) \/ ApplyLookup(c) \/ ApplyInsert(c)

SpecApply == InitApply /\ [][NextApply]_vars

----------------------------------------------------------------------------
(* ImageRepository.assign and unassign, await by await, on a project that  *)
(* holds images up to two below the most it may have.  Those images stay;  *)
(* the calls link and unlink further images, which are stored but not yet  *)
(* linked.                                                                 *)

GalleryName == <<"g1", "g2", "g3", "g4", "g5", "g6", "g7", "g8", "g9", "g10",
                 "g11", "g12", "g13", "g14">>

(* the images every project holds from the start *)
HungImages == {GalleryName[i] : i \in 1..(ImageLimit - 1)}

(* the images the calls link and unlink: one more than there are calls *)
LooseImages == {GalleryName[i] : i \in ImageLimit..(ImageLimit + MaxCalls)}

InitGallery ==
    /\ store = [StoreWithProjects([p \in ProjectIds |-> "PUBLIC"],
                                  [p \in ProjectIds |-> UserName[1]]) EXCEPT
                   !.Image = @ @@ [g \in HungImages \cup LooseImages |-> [extension |-> "png"]],
                   !.ProjectImages = {[ProjectId |-> p, ImageId |-> g] :
                                         p \in ProjectIds, g \in HungImages}]
    /\ wrapper = NoWrapper
    /\ last = NoCall
    /\ calls = NoCalls

(* the callers: a registered user (assign asks for no role) and a caller   *)
(* without a session                                                       *)
GalleryTokens == {TokenName[2], BogusToken}

(* the outcome of a call on an image, as its caller gets it; `out` keeps   *)
(* the number of images the project had when the call wrote or refused     *)
ImageSettled(op, caller, arg, result, st) ==
    /\ store' = st
    /\ last' = [NoCall EXCEPT !.op = op, !.caller = caller, !.id = arg.id, !.arg = arg,
                              !.result = result, !.changed = (st # store),
                              !.out = [count |-> IF Exists(store.Project, arg.projectId)
                                                 THEN countImages(store, arg.projectId)
                                                 ELSE 0]]
    /\ UNCHANGED wrapper

(* assign up to the count: the caller is resolved, the image and the       *)
(* project are looked up and the images of the project counted             *)
AssignCheck(c) ==
    /\ calls[c].pc = "idle"
    /\ \E token \in GalleryTokens, id \in LooseImages \cup {Unknown},
          projectId \in ProjectTargets :
        LET r == ImageRepository_assign(token, id, projectId).result
            arg == [id |-> id, projectId |-> projectId]
        IN IF r = "ok"
           THEN /\ calls' = [calls EXCEPT ![c] =
                                [pc |-> "add", user |-> _getAuth(token).id, arg |-> arg]]
                /\ UNCHANGED <<store, wrapper, last>>
           ELSE /\ ImageSettled("Image.assign", CallerOf(token), arg, r, store)
                /\ UNCHANGED calls

(* project.addImage *)
AssignAdd(c) ==
    /\ calls[c].pc = "add"
    /\ ImageSettled("Image.assign",
                    [id |-> calls[c].user, role |-> store.User[calls[c].user].role],
                    calls[c].arg, "ok",
                    [store EXCEPT !.ProjectImages = @ \cup
                        {[ProjectId |-> calls[c].arg.projectId, ImageId |-> calls[c].arg.id]}])
    /\ calls' = [calls EXCEPT ![c] = NotInFlight]

(* unassign up to its write: the caller is resolved, the image and the     *)
(* project are looked up                                                   *)
UnassignLookup(c) ==
    /\ calls[c].pc = "idle"
    /\ \E token \in GalleryTokens, id \in LooseImages \cup {Unknown},
          projectId \in ProjectTargets :
        LET r == ImageRepository_unassign(token, id, projectId).result
            arg == [id |-> id, projectId |-> projectId]
        IN IF r = "ok"
           THEN /\ calls' = [calls EXCEPT ![c] =
                                [pc |-> "remove", user |-> _getAuth(token).id, arg |-> arg]]
                /\ UNCHANGED <<store, wrapper, last>>
           ELSE /\ ImageSettled("Image.unassign", CallerOf(token), arg, r, store)
                /\ UNCHANGED calls

(* project.removeImage *)
UnassignRemove(c) ==
    /\ calls[c].pc = "remove"
    /\ ImageSettled("Image.unassign",
                    [id |-> calls[c].user, role |-> store.User[calls[c].user].role],
                    calls[c].arg, "ok",
                    [store EXCEPT !.ProjectImages = @ \
                        {[ProjectId |-> calls[c].arg.projectId, ImageId |-> calls[c].arg.id]}])
    /\ calls' = [calls EXCEPT ![c] = NotInFlight]

NextGallery ==
    \E c \in CallIds :
        AssignCheck(c) \/ AssignAdd(c) \/ UnassignLookup(c) \/ UnassignRemove(c)

SpecGallery == InitGallery /\ [][NextGallery]_vars

(* C19: whatever the sequence or interleaving of assign and unassign, no   *)
(* project is linked to more than ten images, and an assign that finds ten *)
(* images on the project is refused and links nothing.                     *)
C19_AtMostTenImages ==
    /\ \A p \in DOMAIN store.Project : countImages(store, p) <= ImageLimit + 1
    /\ (last.op = "Image.assign" /\ last.out.count >= ImageLimit + 1)
           => (last.result # "ok" /\ ~last.changed)
----------------------------------------------------------------------------
(* ProjectRepository.getAll *)

NoFilter == [categoryId |-> Null, creatorId |-> Null, status |-> Null, imageId |-> Null]

(* the filter were it taken as the caller sent it *)
ProjectListFilter_AsRequested(options) == options.filter

(* without showHidden the status of the filter is overwritten with PUBLIC *)
ProjectListFilter(options) ==
    IF options.showHidden THEN options.filter
    ELSE [options.filter EXCEPT !.status = "PUBLIC"]

(* the where clause of findAll, and the condition handed to FindNearest;   *)
(* the include for filter.imageId is an outer join and drops no project    *)
ProjectMatches(row, filter) ==
    /\ filter.categoryId = Null \/ row.CategoryId = filter.categoryId
    /\ filter.creatorId = Null \/ row.CreatorId = filter.creatorId
    /\ filter.status = Null \/ row.status = filter.status

(* the reach of a location search when the caller names none *)
DefaultMaxDistance == 15000

Abs(n) == IF n < 0 THEN 0 - n ELSE n

(* the stored procedure FindNearest: the rows of the table that meet the   *)
(* condition and lie within maxDistance of the origin                      *)
FindNearest(table, location, filter) ==
    {p \in DOMAIN table :
        /\ ProjectMatches(table[p], filter)
        /\ Abs(table[p].lat.value - location.lat) + Abs(table[p].lon.value - location.lon)
              <= location.maxDistance}

(* getAll: the ids of the projects listed (their order left aside) *)
ProjectRepository_getAll(token, options) ==
    IF _getAuthThrows(token) THEN Throw("AuthorizationError") @@ [list |-> {}]
    ELSE IF /\ ~options.showHidden
            /\ options.filter.status # Null /\ options.filter.status # "PUBLIC"
         THEN Return(store) @@ [list |-> {}]
    ELSE LET filter == ProjectListFilter(options)
             found == IF options.location # Undefined
                      THEN FindNearest(store.Project, options.location, filter)
                      ELSE {p \in DOMAIN store.Project : ProjectMatches(store.Project[p], filter)}
         IN IF \E p \in found : ProjectLoadInstanceThrows(store.Project[p])
            THEN Throw("TypeError") @@ [list |-> {}]
            ELSE Return(store) @@ [list |-> found]

ProjectListOptions ==
    {[filter |-> [NoFilter EXCEPT !.status = status, !.creatorId = creator],
      location |-> location, showHidden |-> showHidden] :
        status \in ProjectStatus \cup {Null}, creator \in {Null, UserName[1]},
        location \in {Undefined,
                      [lat |-> 0, lon |-> 0, maxDistance |-> DefaultMaxDistance],
                      [lat |-> 90, lon |-> 0, maxDistance |-> 10]},
        showHidden \in BOOLEAN}

ProjectGetAll ==
    /\ Idle
    /\ \E token \in CallerTokens, options \in ProjectListOptions :
        LET r == ProjectRepository_getAll(token, options)
        IN /\ store' = r.store
           /\ last' = [Call("Project.getAll", token, Null, options, store.Project, r)
                          EXCEPT !.out = [list |-> r.list]]
           /\ UNCHANGED <<wrapper, calls>>

NextListing == ProjectGetAll \/ Resolve

SpecListing == InitWrapper /\ [][NextListing]_vars

(* C20: getAll without showHidden lists only projects whose stored status  *)
(* is PUBLIC, with a filter and a sort as with a location, whatever status *)
(* the filter asks for; when the filter asks for a status other than       *)
(* PUBLIC, the registered caller gets an empty list and no error.          *)
C20_HiddenProjectsNotListed ==
    (last.op = "Project.getAll" /\ ~last.arg.showHidden)
        => /\ \A p \in last.out.list : store.Project[p].status = "PUBLIC"
           /\ (last.caller.id # Null /\ last.arg.filter.status \notin {Null, "PUBLIC"})
                  => (last.result = "ok" /\ last.out.list = {})

(* a listing without showHidden and without a status in the filter, by a   *)
(* location, has left out a stored project that is not PUBLIC              *)
C20_Witness ==
    /\ last.op = "Project.getAll" /\ ~last.arg.showHidden
    /\ last.result = "ok"
    /\ last.arg.filter.status = Null
    /\ last.arg.location # Undefined
    /\ \E p \in DOMAIN store.Project :
          store.Project[p].status # "PUBLIC" /\ p \notin last.out.list
----------------------------------------------------------------------------
(* get, update and delete of every repository, on the id of a stored row   *)
(* or on an id no table holds                                              *)

Repository_delete(gate, token, id) ==
    CASE gate = "User" -> UserRepository_delete(token, id)
      [] gate = "Project" -> ProjectRepository_delete(token, id)
      [] gate = "Task" -> TaskRepository_delete(token, id)
      [] gate = "Application" -> ApplicationRepository_delete(token, id)
      [] gate = "Category" -> CategoryRepository_delete(token, id)

Get ==
    /\ Idle
    /\ \E gate \in Gates, token \in CallerTokens :
       \E id \in DOMAIN store[gate] \cup {Unknown} :
           Do(gate \o ".get", token, id, Undefined, store[gate],
              Repository_get(gate, token, id))

Delete ==
    /\ Idle
    /\ \E gate \in Gates, token \in CallerTokens :
       \E id \in DOMAIN store[gate] \cup {Unknown} :
           Do(gate \o ".delete", token, id, Undefined, store[gate],
              Repository_delete(gate, token, id))

NextAccess == Get \/ Update \/ Delete \/ Resolve

SpecAccess == InitUpdate /\ [][NextAccess]_vars

(* the call in `last` is a get, a delete or an update with a patch that is *)
(* not empty                                                               *)
AccessById ==
    \E gate \in Gates :
        \/ last.op \in {gate \o ".get", gate \o ".delete"}
        \/ last.op = gate \o ".update" /\ last.arg # EmptyPatch(gate)

(* C21: for every kind of record, get, update with a patch that is not     *)
(* empty, and delete, called by a registered caller with an id that no     *)
(* stored record has, fail with NotFoundError, also when the caller would  *)
(* not be permitted: never with AuthorizationError.                        *)
C21_MissingIsNotFound ==
    (AccessById /\ Authenticated /\ ~last.existed) => last.result = "NotFoundError"
----------------------------------------------------------------------------
(* The order of the checks in create and update: the calls on projects and *)
(* tasks, on a store that holds a project in every slot                    *)

NextOrder ==
    \/ ProjectCreate \/ ProjectUpdate \/ ProjectDelete
    \/ TaskCreate \/ TaskUpdate
    \/ Resolve

SpecOrder == InitTask /\ [][NextOrder]_vars

(* the caller of the call in `last` is registered and is not among those   *)
(* the operation is for: a project is created by an admin or an initiator  *)
(* and updated by an admin or its creator, a task is created and updated   *)
(* by an admin or the creator of its project                               *)
CallerNotPermitted ==
    /\ Authenticated
    /\ ~isAdmin(last.caller)
    /\ \/ last.op = "Project.create" /\ ~isInitiator(last.caller)
       \/ /\ last.op = "Project.update" /\ last.existed /\ ~ProjectPatchIsEmpty(last.arg)
          /\ last.pre.CreatorId # last.caller.id
       \/ /\ last.op = "Task.create" /\ Exists(store.Project, last.arg.projectId)
          /\ store.Project[last.arg.projectId].CreatorId # last.caller.id
       \/ /\ last.op = "Task.update" /\ last.existed /\ ~TaskPatchIsEmpty(last.arg)
          /\ store.Project[last.pre.ProjectId].CreatorId # last.caller.id

(* the payload of the call in `last`, as the method validates it, breaks a *)
(* rule of validate                                                        *)
PayloadViolatesRule ==
    CASE last.op = "Project.create" ->
            ProjectRuleViolated(ProjectDefaults(last.caller, last.arg))
      [] last.op = "Project.update" -> ProjectRuleViolated(ProjectMerge(last.pre, last.arg))
      [] last.op = "Task.create" -> TaskValidate(last.arg) # "ok"
      [] last.op = "Task.update" -> TaskValidate(TaskMerge(last.pre, last.arg)) # "ok"
      [] OTHER -> FALSE

(* C22: a create or an update by a caller who is not permitted, with a     *)
(* payload that also breaks a validation rule, fails with                  *)
(* AuthorizationError, not with the error of the validation, and stores    *)
(* nothing.                                                                *)
C22_AuthorizationBeforeValidation ==
    (CallerNotPermitted /\ PayloadViolatesRule) => (Denied /\ ~last.changed)
----------------------------------------------------------------------------
(* Model.authenticate on a wrapper in each of its states *)

(* authenticate asks the repository for the caller whenever it is not      *)
(* handed a User                                                           *)
AuthenticateLooksUp(token, user) == token # Null /\ user = Null

(* the caller authenticate is to attach: the User handed in, or the one    *)
(* the token resolves to                                                   *)
ResolvedCaller(token, user) ==
    IF user # Null THEN [id |-> user, role |-> store.User[user].role] ELSE CallerOf(token)

(* C23: authenticate on a system wrapper fails and leaves it a system      *)
(* wrapper; on an unauthenticated wrapper it attaches the resolved caller  *)
(* and makes the wrapper authenticated; on an authenticated wrapper it     *)
(* returns without a lookup of the caller and leaves the attached caller   *)
(* as it was.                                                              *)
C23_AuthenticateStateMachine ==
    last.op = "authenticate" =>
        IF last.token = Null
        THEN last.result = "Error" /\ isSystem(wrapper) /\ ~isAuthenticated(wrapper)
        ELSE IF last.caller.id = Null
        THEN last.result = "ok" =>
                /\ isAuthenticated(wrapper)
                /\ wrapper.caller = ResolvedCaller(last.token, last.arg.user)
        ELSE /\ last.result = "ok"
             /\ ~AuthenticateLooksUp(last.token, last.arg.user)
             /\ wrapper.caller = last.caller
----------------------------------------------------------------------------
(* update on a wrapper: the update of the repository with the id and the   *)
(* token of the wrapper, and then reload                                   *)

(* Model.reload: the row the wrapper holds is read again, and then         *)
(* _loadInstance is called as a function of its own, a name nothing binds: *)
(* the call ends in a ReferenceError and the fields the getters read stay  *)
(* as they were loaded                                                     *)
Model_reload(w) == [result |-> "ReferenceError", wrapper |-> w]

(* Project.update(update) *)
Project_update(w, update) ==
    LET r == ProjectRepository_update(w.callerToken, w.id, update)
    IN IF r.result # "ok"
       THEN [result |-> r.result, delegated |-> r.result, wrapper |-> w, store |-> r.store]
       ELSE [result |-> Model_reload(w).result, delegated |-> r.result,
             wrapper |-> Model_reload(w).wrapper, store |-> r.store]

ProjectWrapperUpdate ==
    /\ Idle
    /\ wrapper.class = "Project"
    /\ \E update \in ProjectPatches :
        LET r == Project_update(wrapper, update)
        IN /\ store' = r.store
           /\ wrapper' = r.wrapper
           /\ last' = [WrapperCall("Project#update", update, r.result,
                                   [delegated |-> r.delegated])
                          EXCEPT !.changed = (r.store # store)]
    /\ UNCHANGED calls

NextWrapperUpdate == ProjectGet \/ ProjectWrapperUpdate \/ Resolve

SpecWrapperUpdate == InitWrapper /\ [][NextWrapperUpdate]_vars

(* C24: when the update a wrapper delegates to its repository succeeds,    *)
(* update on the wrapper returns, and the wrapper has been reloaded: every *)
(* unfiltered getter returns the value now stored for the record, patched  *)
(* fields included.                                                        *)
C24_UpdateReloadsWrapper ==
    (last.op = "Project#update" /\ last.out.delegated = "ok")
        => /\ last.result = "ok"
           /\ \A field \in ProjectFields :
                 Project_getField(wrapper, field, FALSE) = store.Project[wrapper.id][field]
----------------------------------------------------------------------------
(* The validate functions, applied to candidates that break any            *)
(* combination of their rules                                              *)

UserCandidates ==
    {[password |-> password, mail |-> mail, fullname |-> fullname,
      role |-> role, gender |-> gender] :
        password \in {Num(1), Str(7, "q"), Str(8, "q")},
        mail \in {Num(1), Str(2, "m"), Str(3, "m")},
        fullname \in {Num(1), Str(2, "x"), Str(3, "a")},
        role \in {"ADMIN", "?"}, gender \in {"NONE", "?"}}

TaskCandidates ==
    {[title |-> title, description |-> description, supporterGoal |-> supporterGoal] :
        title \in {Num(1), Str(2, "x"), Str(3, "a")},
        description \in {Num(1), Str(0, "d")},
        supporterGoal \in {Str(1, "n"), Num(0), Num(1), Num(1000000000), Num(1000000001)}}

ProjectCandidates ==
    {[ProjectBase EXCEPT !.title = title, !.description = description, !.status = status,
                         !.moneyGoal = moneyGoal, !.lat = lat, !.lon = lon] :
        title \in {Num(1), Str(2, "x"), Str(3, "a")},
        description \in {Num(1), Str(0, "d")},
        status \in {"PUBLIC", "?"},
        moneyGoal \in {Str(1, "n"), Num(-1), Num(0)},
        lat \in {Str(1, "n"), Num(-91), Num(90)},
        lon \in {Num(-180), Num(181)}}

(* a call of validate: how it ends, and the code of the error it throws *)
Validated(op, candidate, outcome) ==
    /\ last' = [NoCall EXCEPT !.op = op, !.arg = candidate,
                              !.result = IF outcome \in {"ok", "ReferenceError"}
                                         THEN outcome ELSE "ValidationError",
                              !.out = [code |-> outcome]]
    /\ UNCHANGED <<store, wrapper, calls>>

ValidateUser ==
    /\ Idle
    /\ \E user \in UserCandidates : Validated("User.validate", user, UserValidate(user))

ValidateTask ==
    /\ Idle
    /\ \E task \in TaskCandidates : Validated("Task.validate", task, TaskValidate(task))

ValidateProject ==
    /\ Idle
    /\ \E project \in ProjectCandidates :
          Validated("Project.validate", project, ProjectValidate(project))

NextValidate == ValidateUser \/ ValidateTask \/ ValidateProject \/ Resolve

SpecValidate == Init /\ [][NextValidate]_vars

(* the rules of a candidate in the order they are to be checked, each with *)
(* whether the candidate breaks it and the code it is reported with        *)
Rule(broken, code) == [broken |-> broken, code |-> code]

IsString(v) == v.type = "string"
IsNumber(v) == v.type = "number"

UserRules(c) ==
    <<Rule(~IsString(c.password), "PASSWORD_NOT_STRING"),
      Rule(IsString(c.password) /\ c.password.length < 8, "PASSWORD_TOO_SHORT"),
      Rule(~IsString(c.mail), "MAIL_NOT_STRING"),
      Rule(IsString(c.mail) /\ c.mail.length < 3, "MAIL_TOO_SHORT"),
      Rule(~IsString(c.fullname), "FULLNAME_NOT_STRING"),
      Rule(IsString(c.fullname) /\ c.fullname.length < 3, "FULLNAME_TOO_SHORT"),
      Rule(c.role \notin UserRole, "ROLE_INVALID"),
      Rule(c.gender \notin UserGender, "GENDER_INVALID")>>

TaskRules(c) ==
    <<Rule(~IsString(c.title), "TITLE_NOT_STRING"),
      Rule(IsString(c.title) /\ c.title.length < 3, "TITLE_TOO_SHORT"),
      Rule(~IsString(c.description), "DESCRIPTION_NOT_STRING"),
      Rule(~IsNumber(c.supporterGoal), "SUPPORTER_GOAL_NOT_NUMBER"),
      Rule(IsNumber(c.supporterGoal)
             /\ (c.supporterGoal.value < 1 \/ c.supporterGoal.value > 1000000000),
           "SUPPORTER_GOAL_OUT_OF_RANGE")>>

ProjectRules(c) ==
    <<Rule(~IsString(c.title), "title"),
      Rule(IsString(c.title) /\ c.title.length < 3, "title"),
      Rule(~IsString(c.description), "description"),
      Rule(c.status \notin ProjectStatus, "status"),
      Rule(~IsNumber(c.moneyGoal), "moneyGoal"),
      Rule(IsNumber(c.moneyGoal) /\ c.moneyGoal.value < 0, "moneyGoal"),
      Rule(~IsNumber(c.lat), "lat"),
      Rule(IsNumber(c.lat) /\ (c.lat.value < -90 \/ c.lat.value > 90), "lat"),
      Rule(~IsNumber(c.lon), "lon"),
      Rule(IsNumber(c.lon) /\ (c.lon.value < -180 \/ c.lon.value > 180), "lon")>>

(* the code of the first rule broken, or "ok" when none is *)
FirstBroken(rules) ==
    IF \A i \in 1..Len(rules) : ~rules[i].broken THEN "ok"
    ELSE rules[CHOOSE i \in 1..Len(rules) :
                   rules[i].broken /\ \A j \in 1..(i - 1) : ~rules[j].broken].code

(* C25: each validate fails with a ValidationError that carries the code   *)
(* of the first rule the candidate breaks, in the fixed order of the       *)
(* fields, and returns normally iff the candidate breaks no rule; it       *)
(* depends on the candidate alone and changes nothing.                     *)
C25_FirstViolatedRule ==
    /\ last.op = "User.validate" =>
          /\ last.out.code = FirstBroken(UserRules(last.arg))
          /\ last.result = IF last.out.code = "ok" THEN "ok" ELSE "ValidationError"
    /\ last.op = "Task.validate" =>
          /\ last.out.code = FirstBroken(TaskRules(last.arg))
          /\ last.result = IF last.out.code = "ok" THEN "ok" ELSE "ValidationError"
    /\ last.op = "Project.validate" =>
          last.result = IF FirstBroken(ProjectRules(last.arg)) = "ok"
                        THEN "ok" ELSE "ValidationError"
    /\ last.op \in {"User.validate", "Task.validate", "Project.validate"} => ~last.changed
----------------------------------------------------------------------------
(* Who a project created by a non-admin belongs to *)

----------------------------------------------------------------------------
(* ApplicationRepository.getAll *)

(* the gate of getAll: it looks at the filter only when there is one *)
ApplicationListDenied(caller, filter) ==
    /\ ~isAdmin(caller)
    /\ filter # Undefined /\ filter.userId # caller.id
    /\ filter # Undefined /\ filter.taskId = Null

(* the where clause of findAll *)
ApplicationMatches(row, filter) ==
    \/ filter = Undefined
    \/ /\ filter.taskId = Null \/ row.TaskId = filter.taskId
       /\ filter.userId = Null \/ row.UserId = filter.userId
       /\ filter.accepted = Null \/ row.accepted = filter.accepted

(* getAll: the ids of the applications listed; createFromArray builds a    *)
(* wrapper for every row found                                             *)
ApplicationRepository_getAll(token, options) ==
    IF _getAuthThrows(token) THEN Throw("AuthorizationError") @@ [list |-> {}]
    ELSE IF ApplicationListDenied(_getAuth(token), options.filter)
         THEN Throw("AuthorizationError") @@ [list |-> {}]
    ELSE LET found == {a \in DOMAIN store.Application :
                          ApplicationMatches(store.Application[a], options.filter)}
         IN IF \E a \in found : ApplicationLoadInstanceThrows(store.Application[a])
            THEN Throw("TypeError") @@ [list |-> {}]
            ELSE Return(store) @@ [list |-> found]

ApplicationListOptions ==
    {[filter |-> Undefined]}
    \cup {[filter |-> [taskId |-> task, userId |-> user, accepted |-> accepted]] :
             task \in TaskIds \cup {Null}, user \in UserIds \cup {Null},
             accepted \in {Null, "true"}}

ApplicationGetAll ==
    /\ Idle
    /\ \E token \in CallerTokens, options \in ApplicationListOptions :
        LET r == ApplicationRepository_getAll(token, options)
        IN /\ store' = r.store
           /\ last' = [Call("Application.getAll", token, Null, options, store.Application, r)
                          EXCEPT !.out = [list |-> r.list]]
           /\ UNCHANGED <<wrapper, calls>>

NextApplicationList == ApplicationGetAll \/ ApplicationDelete \/ Resolve

SpecApplicationList == InitApplication /\ [][NextApplicationList]_vars

(* the filter of the listing in `last` narrows it to the applications of   *)
(* the caller, or to those for one task                                    *)
ListingIsRestricted ==
    /\ last.arg.filter # Undefined
    /\ last.arg.filter.userId = last.caller.id \/ last.arg.filter.taskId # Null

(* C27: getAll by a registered caller who is not an admin, without a       *)
(* filter or with a filter that narrows the listing neither to the         *)
(* caller's own applications nor to one task, fails with                   *)
(* AuthorizationError and returns no applications.                         *)
C27_ListingNeedsRestriction ==
    (/\ last.op = "Application.getAll" /\ Authenticated /\ ~isAdmin(last.caller)
     /\ ~ListingIsRestricted)
        => (Denied /\ last.out.list = {})
----------------------------------------------------------------------------
(* The states of a wrapper under every call that moves it between them *)

(* Model.setCallerToken *)
Model_setCallerToken(w, token) ==
    IF token = NotAString THEN [result |-> "TypeError", wrapper |-> w]
    ELSE IF ~isAuthenticated(w) THEN [result |-> "ok", wrapper |-> [w EXCEPT !.callerToken = token]]
    ELSE [result |-> "Error", wrapper |-> w]

(* SessionRepository.deleteByToken(token, token): the session of the token *)
(* is destroyed; without a session the caller is not resolved              *)
SessionRepository_deleteByToken(token) ==
    IF _getAuthThrows(token) THEN Throw("AuthorizationError")
    ELSE Return([store EXCEPT !.Session = Remove(@, {token})])

(* User.logout: the session of the wrapper's token is deleted and the      *)
(* wrapper made a system wrapper; neither call is awaited, and what        *)
(* becomes of the deletion does not reach the caller                       *)
User_logout(w) ==
    IF ~isAuthenticated(w) THEN [result |-> "Error", wrapper |-> w, store |-> store]
    ELSE [result |-> "ok", wrapper |-> Model_makeSystem(w).wrapper,
          store |-> SessionRepository_deleteByToken(w.callerToken).store]

WrapperSetCallerToken ==
    /\ Idle
    /\ wrapper.class # "none"
    /\ \E token \in CallerTokens :
          /\ wrapper' = Model_setCallerToken(wrapper, token).wrapper
          /\ last' = WrapperCall("setCallerToken", [token |-> token],
                                 Model_setCallerToken(wrapper, token).result, Undefined)
    /\ UNCHANGED <<store, calls>>

UserLogout ==
    /\ Idle
    /\ wrapper.class = "User"
    /\ wrapper' = User_logout(wrapper).wrapper
    /\ store' = User_logout(wrapper).store
    /\ last' = [WrapperCall("User.logout", Undefined, User_logout(wrapper).result, Undefined)
                   EXCEPT !.changed = (User_logout(wrapper).store # store)]
    /\ UNCHANGED calls

NextWrapperStates ==
    \/ UserWrap \/ WrapperSetCallerToken \/ WrapperAuthenticate
    \/ WrapperUnauthenticate \/ WrapperMakeSystem \/ UserLogout
    \/ Resolve

SpecWrapperStates == Init /\ [][NextWrapperStates]_vars

----------------------------------------------------------------------------
(* Logging in with the password a user was created or updated with *)

(* the sessions opened by logging in; their tokens are not handed to the   *)
(* calls as caller tokens                                                  *)
MaxLogins == 2
LoginName == <<"s1", "s2", "s3">>
LoginTokens == {LoginName[i] : i \in 1..MaxLogins}

(* bcrypt.compare(password, hash) *)
bcrypt_compare(password, hash) == hash.length = 60 /\ hash = Hash(password)

(* UserRepository._getByMail: the id of the user with the mail, or null *)
_getByMail(mail) ==
    IF \E u \in DOMAIN store.User : store.User[u].mail = mail
    THEN CHOOSE u \in DOMAIN store.User : store.User[u].mail = mail
    ELSE Null

(* SessionRepository.create: the user is not known or the password does   *)
(* not compare to the one stored                                           *)
LoginRefused(mail, password) ==
    \/ _getByMail(mail) = Null
    \/ ~bcrypt_compare(password, store.User[_getByMail(mail)].password)

(* SessionRepository.create(mail, password) *)
SessionRepository_create(mail, password) ==
    IF LoginRefused(mail, password) THEN Throw("AuthorizationError")
    ELSE Return([store EXCEPT !.Session =
                    @ @@ (FreshId(LoginTokens, LoginName, store.Session)
                             :> [UserId |-> _getByMail(mail)])])

LoginPasswords == {Str(8, "q"), Str(9, "r")}

SessionCreate ==
    /\ Idle
    /\ LoginTokens \ DOMAIN store.Session # {}
    /\ \E id \in UserIds, password \in LoginPasswords :
        Do("Session.create", Null, _getByMail(MailOf(id)), [mail |-> MailOf(id), password |-> password],
           store.User, SessionRepository_create(MailOf(id), password))

NextLogin == UserCreate \/ UserUpdate \/ UserDelete \/ SessionCreate \/ Resolve

SpecLogin == Init /\ [][NextLogin]_vars

SuppliesPassword ==
    /\ last.op \in {"User.create", "User.update"}
    /\ last.result = "ok"
    /\ last.arg.password # Undefined

(* C29: after every successful UserRepository.create and                   *)
(* UserRepository.update that supplies a password, the password stored for *)
(* the user is a hash of it and not the value supplied, and                *)
(* SessionRepository.create with the user's mail and that password is not  *)
(* refused.                                                                *)
C29_StoredPasswordIsHash ==
    SuppliesPassword =>
        /\ store.User[last.id].password = Hash(last.arg.password)
        /\ store.User[last.id].password # last.arg.password
        /\ ~LoginRefused(store.User[last.id].mail, last.arg.password)
----------------------------------------------------------------------------
(* How an application comes to be accepted *)

Accepted(st, a) == Exists(st.Application, a) /\ st.Application[a].accepted = "true"

(* the callers update is meant for: an admin, or the creator of the        *)
(* project the application is for                                          *)
MayAccept(caller, st, a) ==
    isAdmin(caller) \/ ApplicationProject(st, st.Application[a]).CreatorId = caller.id

(* C30: an application that ApplicationRepository.create stores is not     *)
(* accepted, and an application becomes accepted only in an                *)
(* ApplicationRepository.update of it by an admin or the creator of its    *)
(* project; an applicant's own create never stores an accepted             *)
(* application.                                                            *)
C30_AcceptedOnlyByPermittedUpdate ==
    [][\A a \in ApplicationIds :
        /\ (~Exists(store.Application, a) /\ Exists(store'.Application, a)) =>
              store'.Application[a].accepted = "false"
        /\ (~Accepted(store, a) /\ Accepted(store', a)) =>
              /\ last'.op = "Application.update" /\ last'.id = a
              /\ Exists(store.Application, a)
              /\ MayAccept(last'.caller, store, a)]_vars

====
